---- MODULE Spec2Model ----
(***************************************************************************)
(* Directory-size computation engine of dir-tree: the worker pool, the     *)
(* generation-tagged update channel, the per-directory local-result cache  *)
(* and the deepest-first cascade (src/src/app/size_runtime.rs,             *)
(* src/src/core/size.rs, event loop of src/src/main.rs, expand handlers of *)
(* src/src/app/handler.rs).                                                *)
(***************************************************************************)
EXTENDS Integers, Sequences, FiniteSets, TLC

\* ------------------------------------------------------------ bounds ----
\* Width of the size word.  The program uses u64; the model keeps the same
\* arithmetic (saturating add, wrapping sum) on a narrower word.
U64Bits == 3
\* Cap on size_compute_generation (the counter is unbounded in practice).
MaxGen == 2
\* Largest value std::thread::available_parallelism() reports.
MaxThreads == 2
\* Apparent size of a large file (the largest off_t is half the size word).
BigSize == 3
\* Apparent size of the symlink /t/b/l (length of its target text).
LinkLen == 1

U64Max == 2^U64Bits - 1

\* ------------------------------------------------- u64 arithmetic -------
\* u64::saturating_add
SaturatingAdd(a, b) == IF a + b > U64Max THEN U64Max ELSE a + b

\* usize::saturating_sub(1)
SaturatingDec(n) == IF n = 0 THEN 0 ELSE n - 1

\* HashMap<K,V> as a function with a finite domain
EmptyMap == [k \in {} |-> 0]

MapInsert(m, k, v) == [x \in DOMAIN m \cup {k} |-> IF x = k THEN v ELSE m[x]]

MapRemove(m, k) == [x \in DOMAIN m \ {k} |-> m[x]]

\* the merge with the sizes of a key present on both sides added up
OrInsertAll_AddOnCollision(base, other) ==
    [k \in DOMAIN base \cup DOMAIN other |->
        IF k \in DOMAIN base
        THEN IF k \in DOMAIN other THEN SaturatingAdd(base[k], other[k]) ELSE base[k]
        ELSE other[k]]

\* the merge with the later value replacing the one already in the base
OrInsertAll_Overwrite(base, other) ==
    [k \in DOMAIN base \cup DOMAIN other |->
        IF k \in DOMAIN other THEN other[k] ELSE base[k]]

\* for (k, v) in other { base.entry(k).or_insert(v); }
OrInsertAll(base, other) ==
    [k \in DOMAIN base \cup DOMAIN other |->
        IF k \in DOMAIN base THEN base[k] ELSE other[k]]

RECURSIVE SumOver(_, _)
\* exact (unbounded) sum of the values of m over the key set S
SumOver(m, S) ==
    IF S = {} THEN 0
    ELSE LET k == CHOOSE x \in S : TRUE IN m[k] + SumOver(m, S \ {k})

\* merged_hardlinks.values().sum() on u64 in a build without overflow checks
WrappingSum(m) == SumOver(m, DOMAIN m) % (U64Max + 1)

\* whether merged_hardlinks.values().sum() overflows u64
SumOverflows(m) == SumOver(m, DOMAIN m) > U64Max

\* ------------------------------------------------ the filesystem --------
\* A filesystem is a record
\*   parent     : directory -> its parent directory ("none" for the root)
\*   entries    : directory -> what read_dir yields, in the order the OS returns
\*                it (directories in name order); an entry is
\*                [kind |-> "file", path, size, ino]  (ino = 0: nlink <= 1),
\*                [kind |-> "symlink", path, size] or [kind |-> "dir", path]
\*   mount      : directories that are mount points of another device
\*   unreadable : directories whose read_dir fails
Root == "/t"
RootDev == 1
OtherDev == 2

FileEntry(p, sz, ino) == [kind |-> "file", path |-> p, size |-> sz, ino |-> ino]

SymlinkEntry(p, sz) == [kind |-> "symlink", path |-> p, size |-> sz]

DirEntry(p) == [kind |-> "dir", path |-> p]

\* size of a file of the size case sc whose inode number is ino
SizeOfCase(sc, ino) ==
    CASE sc = "small" -> 1
      [] sc = "biglinks" -> (IF ino = 0 THEN 1 ELSE BigSize)
      [] sc = "hollow" -> (IF ino = 0 THEN 0 ELSE 1)
      [] OTHER -> BigSize

\* /t { f, a { f, x { f } }, b { f, l -> .. } }; c = inode numbers of the four files
WideFs(c, sc, m, u) ==
    [parent |-> [d \in {"/t", "/t/a", "/t/a/x", "/t/b"} |->
                    CASE d = "/t" -> "none"
                      [] d = "/t/a/x" -> "/t/a"
                      [] OTHER -> "/t"],
     entries |-> [d \in {"/t", "/t/a", "/t/a/x", "/t/b"} |->
                    CASE d = "/t" -> << FileEntry("/t/f", SizeOfCase(sc, c[1]), c[1]),
                                        DirEntry("/t/a"), DirEntry("/t/b") >>
                      [] d = "/t/a" -> << FileEntry("/t/a/f", SizeOfCase(sc, c[2]), c[2]),
                                          DirEntry("/t/a/x") >>
                      [] d = "/t/a/x" -> << FileEntry("/t/a/x/f", SizeOfCase(sc, c[3]), c[3]) >>
                      [] OTHER -> << FileEntry("/t/b/f", SizeOfCase(sc, c[4]), c[4]),
                                     SymlinkEntry("/t/b/l", LinkLen) >>],
     mount |-> m, unreadable |-> u]

\* /t { f, sub { g } }; c = inode numbers of the two files
SmallFs(c, sc) ==
    [parent |-> [d \in {"/t", "/t/sub"} |-> IF d = "/t" THEN "none" ELSE "/t"],
     entries |-> [d \in {"/t", "/t/sub"} |->
                    IF d = "/t"
                    THEN << FileEntry("/t/f", SizeOfCase(sc, c[1]), c[1]), DirEntry("/t/sub") >>
                    ELSE << FileEntry("/t/sub/g", SizeOfCase(sc, c[2]), c[2]) >>],
     mount |-> {}, unreadable |-> {}]

\* /t { f, sub { g, m { h } } } with another file system mounted on /t/sub/m;
\* f and g are two links to one inode
MountFs ==
    [parent |-> [d \in {"/t", "/t/sub", "/t/sub/m"} |->
                    CASE d = "/t" -> "none"
                      [] d = "/t/sub" -> "/t"
                      [] OTHER -> "/t/sub"],
     entries |-> [d \in {"/t", "/t/sub", "/t/sub/m"} |->
                    CASE d = "/t" -> << FileEntry("/t/f", 1, 1), DirEntry("/t/sub") >>
                      [] d = "/t/sub" -> << FileEntry("/t/sub/g", 1, 1), DirEntry("/t/sub/m") >>
                      [] OTHER -> << FileEntry("/t/sub/m/h", 1, 0) >>],
     mount |-> {"/t/sub/m"}, unreadable |-> {}]

\* inode numbers of (/t/f, /t/a/f, /t/a/x/f, /t/b/f); 0 stands for nlink <= 1
InoCases == { <<0, 0, 0, 0>>, <<0, 1, 0, 1>>, <<1, 0, 1, 0>>,
              <<1, 2, 3, 0>>, <<1, 1, 2, 1>> }

SizeCases == {"small", "biglinks", "big"}

\* the filesystems a single computation is run on
FileSystems ==
    { WideFs(c, sc, m, u) : c \in InoCases, sc \in SizeCases,
                            m \in {{}, {"/t/b"}, {"/t/a/x"}},
                            u \in {{}, {"/t/a/x"}, {"/t/a"}} }

\* the filesystems used where several workers interleave
PoolFileSystems ==
    { WideFs(c, "biglinks", {}, {}) : c \in {<<0, 1, 0, 1>>, <<1, 0, 1, 0>>} }

\* the filesystems used where several generations interleave
FewFileSystems == { SmallFs(<<1, 0>>, "small") }

VARIABLES
    fsys,                       \* the filesystem under the root (never changes)
    dedup_hard_links,           \* state.config.dedup_hard_links
    one_file_system,            \* state.config.one_file_system
    max_threads,                \* std::thread::available_parallelism()
    max_depth,                  \* state.walk_config.max_depth (--depth)
    tree,                       \* directory nodes of state.tree.nodes, in node order
    needs_size_recompute,       \* state.needs_size_recompute
    size_compute_generation,    \* state.size_compute_generation
    dir_sizes,                  \* state.dir_sizes
    file_sizes,                 \* state.file_sizes
    dir_local_sums,             \* state.dir_local_sums
    size_compute,               \* main's Option<SizeComputeState>
    shared,                     \* per generation: the Arc'ed queue, cancel flag and WorkerCtx
    workers,                    \* the live worker threads
    channel,                    \* messages sent on size_tx and not yet received
    panicked                    \* the main thread panicked on an arithmetic overflow

vars == << fsys, dedup_hard_links, one_file_system, max_threads, max_depth, tree,
           needs_size_recompute, size_compute_generation, dir_sizes, file_sizes,
           dir_local_sums, size_compute, shared, workers, channel, panicked >>

env == << fsys, dedup_hard_links, one_file_system, max_threads, max_depth >>

\* ------------------------------------------------ platform helpers ------
Dirs == DOMAIN fsys.entries

\* Path::parent of a directory ("none" above the root)
ParentOf(d) == IF d \in DOMAIN fsys.parent THEN fsys.parent[d] ELSE "none"

\* d is e or lies below e
RECURSIVE IsUnder(_, _)
IsUnder(d, e) ==
    IF d = e THEN TRUE
    ELSE IF d = "none" \/ d = Root THEN FALSE
    ELSE IsUnder(ParentOf(d), e)

\* TreeNode::depth of the node of directory d (root = 0)
RECURSIVE DepthOf(_)
DepthOf(d) == IF d = Root \/ ParentOf(d) = "none" THEN 0 ELSE 1 + DepthOf(ParentOf(d))

\* what read_dir(d) yields
EntriesOf(d) == fsys.entries[d]

\* child directories of d in name order (sort_by_name)
RECURSIVE DirPathsOf(_)
DirPathsOf(entries) ==
    IF entries = << >> THEN << >>
    ELSE IF Head(entries).kind = "dir"
         THEN << Head(entries).path >> \o DirPathsOf(Tail(entries))
         ELSE DirPathsOf(Tail(entries))

ChildDirsOf(d) == DirPathsOf(EntriesOf(d))

\* MetadataExt::dev of a directory (and of the entries inside it)
DevOf(d) ==
    IF \E m \in fsys.mount : IsUnder(d, m) THEN OtherDev ELSE RootDev

\* core::size::get_dev(&state.cwd)
get_dev == DevOf(Root)

\* is_same_device where the platform has no device ids: every path passes
is_same_device_NoDeviceIds(d, root_dev) == root_dev = root_dev

\* core::size::is_same_device(meta, root_dev)
is_same_device(d, root_dev) == DevOf(d) = root_dev

\* classify_file with the dedup switch ignored
classify_file_AlwaysDedup(e, d, dedup) ==
    IF e.ino = 0
    THEN [size |-> e.size, has_key |-> FALSE, key |-> << 0, 0 >>]
    ELSE [size |-> e.size, has_key |-> TRUE, key |-> << DevOf(d), e.ino >>]

\* core::size::classify_file: (size, inode_key); has_key = inode_key.is_some();
\* e is a file entry of directory d
classify_file(e, d, dedup) ==
    IF ~dedup THEN [size |-> e.size, has_key |-> FALSE, key |-> << 0, 0 >>]
    ELSE IF e.ino = 0
         THEN [size |-> e.size, has_key |-> FALSE, key |-> << 0, 0 >>]
         ELSE [size |-> e.size, has_key |-> TRUE, key |-> << DevOf(d), e.ino >>]

\* DirLocalResult
DirLocalResult(u, h) == [unique_sum |-> u, hardlinks |-> h]

\* the match on inode_key with the None arm adding nothing
AddFile_UniqueDropped(acc, e, d, dedup) ==
    LET c == classify_file(e, d, dedup) IN
    IF ~c.has_key
    THEN acc
    ELSE DirLocalResult(acc.unique_sum,
                        OrInsertAll(acc.hardlinks, MapInsert(EmptyMap, c.key, c.size)))

\* for one regular file: the match on inode_key (unique_sum / hardlinks)
AddFile(acc, e, d, dedup) ==
    LET c == classify_file(e, d, dedup) IN
    IF ~c.has_key
    THEN DirLocalResult(SaturatingAdd(acc.unique_sum, c.size), acc.hardlinks)
    ELSE DirLocalResult(acc.unique_sum,
                        OrInsertAll(acc.hardlinks, MapInsert(EmptyMap, c.key, c.size)))

Range(seq) == { seq[i] : i \in 1..Len(seq) }

\* ------------------------------------------------ SizeUpdate messages ---
FileMsg(g, p, sz) == [gen |-> g, type |-> "File", path |-> p, size |-> sz]

DirLocalDoneMsg(g, d, u, h) ==
    [gen |-> g, type |-> "DirLocalDone", dir |-> d, unique_sum |-> u, hardlinks |-> h]

WorkerDoneMsg(g) == [gen |-> g, type |-> "WorkerDone"]

\* ------------------------------------------------ start_size_computation -
\* dirs.sort_by(|a, b| db.cmp(&da)): stable, deepest first
RECURSIVE InsertByDepth(_, _)
InsertByDepth(d, sorted) ==
    IF sorted = << >> THEN << d >>
    ELSE IF DepthOf(Head(sorted)) <= DepthOf(d) THEN << d >> \o sorted
    ELSE << Head(sorted) >> \o InsertByDepth(d, Tail(sorted))

\* the directory list left in tree-node order, parents first
SortDeepestFirst_NodeOrder(seq) == seq

RECURSIVE SortDeepestFirst(_)
SortDeepestFirst(seq) ==
    IF seq = << >> THEN << >>
    ELSE InsertByDepth(Head(seq), SortDeepestFirst(Tail(seq)))

\* node.parent of a directory node, as the parent's path ("none" for the root)
ParentDirOf(d, nodes) == IF ParentOf(d) \in Range(nodes) THEN ParentOf(d) ELSE "none"

\* the count taken over every directory node below d, not only its children
ChildDirCount_Descendants(d, nodes) ==
    Cardinality({ c \in Range(nodes) : c # d /\ IsUnder(c, d) })

\* node.children filtered by is_dir, counted
ChildDirCount(d, nodes) == Cardinality({ c \in Range(nodes) : ParentOf(c) = d })

\* the jobs queue cut after its first job
RECURSIVE JobsOf_FirstOnly(_, _)
JobsOf_FirstOnly(nodes, cache) ==
    IF nodes = << >> THEN << >>
    ELSE IF Head(nodes) \in DOMAIN cache THEN JobsOf_FirstOnly(Tail(nodes), cache)
    ELSE << Head(nodes) >>

\* the jobs queue: tree directories without a cached local result, in node order
RECURSIVE JobsOf(_, _)
JobsOf(nodes, cache) ==
    IF nodes = << >> THEN << >>
    ELSE IF Head(nodes) \in DOMAIN cache THEN JobsOf(Tail(nodes), cache)
    ELSE << Head(nodes) >> \o JobsOf(Tail(nodes), cache)

Min(a, b) == IF a < b THEN a ELSE b

Max(a, b) == IF a > b THEN a ELSE b

\* the worker count without the `if job_count > 0` guards
WorkerCount_Unguarded(job_count, threads) ==
    Min(threads, Max(job_count, 1))

\* one worker per available thread, however few the jobs
WorkerCount_AllThreads(job_count, threads) ==
    IF job_count > 0 THEN Max(threads, 1) ELSE 0

\* max_threads.min(job_count.max(1)), and 0 workers when there is no job
WorkerCount(job_count, threads) ==
    IF job_count > 0 THEN Min(threads, Max(job_count, 1)) ELSE 0

\* the SizeComputeState start_size_computation returns
NewComputeState(gen, nodes, cache, threads) ==
    [some |-> TRUE,
     generation |-> gen,
     remaining_workers |-> WorkerCount(Len(JobsOf(nodes, cache)), threads),
     dirs |-> SortDeepestFirst(nodes),
     parent_dir |-> [d \in Range(nodes) |-> ParentDirOf(d, nodes)],
     pending_children |-> [d \in Range(nodes) |-> ChildDirCount(d, nodes)],
     children_unique |-> [d \in Range(nodes) |-> 0],
     children_hardlinks |-> [d \in Range(nodes) |-> EmptyMap],
     local_done |-> [d \in Range(nodes) \cap DOMAIN cache |-> cache[d]],
     finished |-> {}]

\* no computation yet: main's size_compute = None
NoCompute ==
    [some |-> FALSE, generation |-> 0, remaining_workers |-> 0, dirs |-> << >>,
     parent_dir |-> EmptyMap, pending_children |-> EmptyMap,
     children_unique |-> EmptyMap, children_hardlinks |-> EmptyMap,
     local_done |-> EmptyMap, finished |-> {}]

\* ------------------------------------------------ finalize_ready_dirs ---
\* merge of local.hardlinks and children_hl, the larger map as the base
MergeLargerBase(local_hl, children_hl) ==
    IF Cardinality(DOMAIN local_hl) >= Cardinality(DOMAIN children_hl)
    THEN OrInsertAll(local_hl, children_hl)
    ELSE OrInsertAll(children_hl, local_hl)

\* hardlink_bytes: merged_hardlinks.values().sum()
HardlinkBytes(merged) == WrappingSum(merged)

\* the propagation without the decrement of the parent's pending_children
PropagateToParent_NoDecrement(c, dir, total_unique, merged) ==
    LET parent == IF dir \in DOMAIN c.parent_dir THEN c.parent_dir[dir] ELSE "none" IN
    IF parent = "none" THEN c
    ELSE LET cu1 == IF parent \in DOMAIN c.children_unique
                    THEN [c.children_unique EXCEPT
                             ![parent] = SaturatingAdd(c.children_unique[parent], total_unique)]
                    ELSE c.children_unique
             old == IF parent \in DOMAIN c.children_hardlinks
                    THEN c.children_hardlinks[parent] ELSE EmptyMap
             new == IF DOMAIN old = {} THEN merged ELSE OrInsertAll(old, merged)
         IN [c EXCEPT !.children_unique = cu1,
                      !.children_hardlinks = MapInsert(c.children_hardlinks, parent, new)]

\* the propagation of a finalised directory to its parent
PropagateToParent(c, dir, total_unique, merged) ==
    LET parent == IF dir \in DOMAIN c.parent_dir THEN c.parent_dir[dir] ELSE "none" IN
    IF parent = "none" THEN c
    ELSE LET pc1 == IF parent \in DOMAIN c.pending_children
                    THEN [c.pending_children EXCEPT
                             ![parent] = SaturatingDec(c.pending_children[parent])]
                    ELSE c.pending_children
             cu1 == IF parent \in DOMAIN c.children_unique
                    THEN [c.children_unique EXCEPT
                             ![parent] = SaturatingAdd(c.children_unique[parent], total_unique)]
                    ELSE c.children_unique
             old == IF parent \in DOMAIN c.children_hardlinks
                    THEN c.children_hardlinks[parent] ELSE EmptyMap
             new == IF DOMAIN old = {} THEN merged ELSE OrInsertAll(old, merged)
         IN [c EXCEPT !.pending_children = pc1,
                      !.children_unique = cu1,
                      !.children_hardlinks = MapInsert(c.children_hardlinks, parent, new)]

\* the loop body without the pending_children test
FinalizeOne_NoPendingCheck(st, dir) ==
    LET c == st.c IN
    IF dir \in c.finished THEN st
    ELSE IF dir \notin DOMAIN c.local_done THEN st
    ELSE LET local == c.local_done[dir]
             children_unique == IF dir \in DOMAIN c.children_unique
                                THEN c.children_unique[dir] ELSE 0
             children_hl == IF dir \in DOMAIN c.children_hardlinks
                            THEN c.children_hardlinks[dir] ELSE EmptyMap
             total_unique == SaturatingAdd(local.unique_sum, children_unique)
             merged_hardlinks == MergeLargerBase(local.hardlinks, children_hl)
             hardlink_bytes == HardlinkBytes(merged_hardlinks)
             total == SaturatingAdd(total_unique, hardlink_bytes)
             c1 == [c EXCEPT !.local_done = MapRemove(c.local_done, dir),
                             !.children_unique = MapRemove(c.children_unique, dir),
                             !.children_hardlinks = MapRemove(c.children_hardlinks, dir),
                             !.finished = c.finished \cup {dir}]
         IN [c |-> PropagateToParent(c1, dir, total_unique, merged_hardlinks),
             ds |-> MapInsert(st.ds, dir, total),
             overflow |-> st.overflow \/ SumOverflows(merged_hardlinks)]

\* the loop body without the test of finished
FinalizeOne_NoFinishedCheck(st, dir) ==
    LET c == st.c IN
    IF dir \notin DOMAIN c.local_done THEN st
    ELSE IF (IF dir \in DOMAIN c.pending_children THEN c.pending_children[dir] ELSE 0) # 0
         THEN st
    ELSE LET local == c.local_done[dir]
             children_unique == IF dir \in DOMAIN c.children_unique
                                THEN c.children_unique[dir] ELSE 0
             children_hl == IF dir \in DOMAIN c.children_hardlinks
                            THEN c.children_hardlinks[dir] ELSE EmptyMap
             total_unique == SaturatingAdd(local.unique_sum, children_unique)
             merged_hardlinks == MergeLargerBase(local.hardlinks, children_hl)
             hardlink_bytes == HardlinkBytes(merged_hardlinks)
             total == SaturatingAdd(total_unique, hardlink_bytes)
             c1 == [c EXCEPT !.local_done = MapRemove(c.local_done, dir),
                             !.children_unique = MapRemove(c.children_unique, dir),
                             !.children_hardlinks = MapRemove(c.children_hardlinks, dir),
                             !.finished = c.finished \cup {dir}]
         IN [c |-> PropagateToParent(c1, dir, total_unique, merged_hardlinks),
             ds |-> MapInsert(st.ds, dir, total),
             overflow |-> st.overflow \/ SumOverflows(merged_hardlinks)]

\* one iteration of the loop body for dirs[i]; st = [c, ds, overflow]
FinalizeOne(st, dir) ==
    LET c == st.c IN
    IF dir \in c.finished THEN st
    ELSE IF dir \notin DOMAIN c.local_done THEN st
    ELSE IF (IF dir \in DOMAIN c.pending_children THEN c.pending_children[dir] ELSE 0) # 0
         THEN st
    ELSE LET local == c.local_done[dir]
             children_unique == IF dir \in DOMAIN c.children_unique
                                THEN c.children_unique[dir] ELSE 0
             children_hl == IF dir \in DOMAIN c.children_hardlinks
                            THEN c.children_hardlinks[dir] ELSE EmptyMap
             total_unique == SaturatingAdd(local.unique_sum, children_unique)
             merged_hardlinks == MergeLargerBase(local.hardlinks, children_hl)
             hardlink_bytes == HardlinkBytes(merged_hardlinks)
             total == SaturatingAdd(total_unique, hardlink_bytes)
             c1 == [c EXCEPT !.local_done = MapRemove(c.local_done, dir),
                             !.children_unique = MapRemove(c.children_unique, dir),
                             !.children_hardlinks = MapRemove(c.children_hardlinks, dir),
                             !.finished = c.finished \cup {dir}]
         IN [c |-> PropagateToParent(c1, dir, total_unique, merged_hardlinks),
             ds |-> MapInsert(st.ds, dir, total),
             overflow |-> st.overflow \/ SumOverflows(merged_hardlinks)]

RECURSIVE FinalizeFrom(_, _)
FinalizeFrom(i, st) ==
    CHOOSE r \in { IF i > Len(s.c.dirs) THEN s
                   ELSE FinalizeFrom(i + 1, FinalizeOne(s, s.c.dirs[i])) : s \in {st} } : TRUE

\* finalise writing into an emptied dir_sizes
finalize_ready_dirs_Cleared(ds, compute) ==
    FinalizeFrom(1, [c |-> compute, ds |-> EmptyMap, overflow |-> FALSE])

\* an orchestrator step that does not call finalise
finalize_ready_dirs_Skipped(ds, compute) ==
    [c |-> compute, ds |-> ds, overflow |-> FALSE]

\* finalize_ready_dirs(state, compute): the new compute state and dir_sizes,
\* and whether a sum of hard-link sizes overflowed on the way
finalize_ready_dirs(ds, compute) ==
    FinalizeFrom(1, [c |-> compute, ds |-> ds, overflow |-> FALSE])

\* ------------------------------------------------ apply_size_update -----
\* the generation filter with the comparisons relaxed to "not newer"
GenerationMatches_NotNewer(c, cur_gen, g) ==
    /\ g <= cur_gen
    /\ c.some
    /\ g <= c.generation

\* the three early returns: the update's generation is that of the state and
\* of the live computation
GenerationMatches(c, cur_gen, g) ==
    /\ g = cur_gen
    /\ c.some
    /\ c.generation = g

\* st = [fs, dls, c, need]: file_sizes, dir_local_sums, the compute state and
\* the accumulated return value (need_finalize)

\* apply_size_update with both generation comparisons left out
apply_size_update_unfiltered(st, cur_gen, m) ==
    IF ~st.c.some THEN st
    ELSE CASE m.type = "File" ->
                [st EXCEPT !.fs = MapInsert(st.fs, m.path, m.size)]
           [] m.type = "DirLocalDone" ->
                LET result == DirLocalResult(m.unique_sum, m.hardlinks) IN
                [st EXCEPT !.dls = MapInsert(st.dls, m.dir, result),
                           !.c = [st.c EXCEPT !.local_done =
                                      MapInsert(st.c.local_done, m.dir, result)],
                           !.need = TRUE]
           [] OTHER ->
                [st EXCEPT !.c = [st.c EXCEPT !.remaining_workers =
                                      SaturatingDec(st.c.remaining_workers)]]

\* apply_size_update with the insert into dir_local_sums left out
apply_size_update_NoCache(st, cur_gen, m) ==
    IF ~GenerationMatches(st.c, cur_gen, m.gen) THEN st
    ELSE CASE m.type = "File" ->
                [st EXCEPT !.fs = MapInsert(st.fs, m.path, m.size)]
           [] m.type = "DirLocalDone" ->
                LET result == DirLocalResult(m.unique_sum, m.hardlinks) IN
                [st EXCEPT !.c = [st.c EXCEPT !.local_done =
                                      MapInsert(st.c.local_done, m.dir, result)],
                           !.need = TRUE]
           [] OTHER ->
                [st EXCEPT !.c = [st.c EXCEPT !.remaining_workers =
                                      SaturatingDec(st.c.remaining_workers)]]

\* apply_size_update with a WorkerDone counted whatever its generation
apply_size_update_StaleWorkerDone(st, cur_gen, m) ==
    IF m.type = "WorkerDone" /\ st.c.some
    THEN [st EXCEPT !.c = [st.c EXCEPT !.remaining_workers =
                               SaturatingDec(st.c.remaining_workers)]]
    ELSE IF ~GenerationMatches(st.c, cur_gen, m.gen) THEN st
    ELSE CASE m.type = "File" ->
                [st EXCEPT !.fs = MapInsert(st.fs, m.path, m.size)]
           [] OTHER ->
                LET result == DirLocalResult(m.unique_sum, m.hardlinks) IN
                [st EXCEPT !.dls = MapInsert(st.dls, m.dir, result),
                           !.c = [st.c EXCEPT !.local_done =
                                      MapInsert(st.c.local_done, m.dir, result)],
                           !.need = TRUE]

\* apply_size_update(state, size_compute, generation, update); the return
\* value is accumulated in need
apply_size_update(st, cur_gen, m) ==
    IF ~GenerationMatches(st.c, cur_gen, m.gen) THEN st
    ELSE CASE m.type = "File" ->
                [st EXCEPT !.fs = MapInsert(st.fs, m.path, m.size)]
           [] m.type = "DirLocalDone" ->
                LET result == DirLocalResult(m.unique_sum, m.hardlinks) IN
                [st EXCEPT !.dls = MapInsert(st.dls, m.dir, result),
                           !.c = [st.c EXCEPT !.local_done =
                                      MapInsert(st.c.local_done, m.dir, result)],
                           !.need = TRUE]
           [] OTHER ->
                [st EXCEPT !.c = [st.c EXCEPT !.remaining_workers =
                                      SaturatingDec(st.c.remaining_workers)]]

\* a consumer that applies the first message and discards the rest of the batch
ApplyAll_FirstOnly(msgs, st, cur_gen) ==
    IF msgs = << >> THEN st ELSE apply_size_update(st, cur_gen, Head(msgs))

\* the first recv() and the try_recv() drain loop of the event loop
RECURSIVE ApplyAll(_, _, _)
ApplyAll(msgs, st, cur_gen) ==
    IF msgs = << >> THEN st
    ELSE ApplyAll(Tail(msgs),
                  CHOOSE r \in { apply_size_update(s, cur_gen, Head(msgs)) : s \in {st} } : TRUE,
                  cur_gen)

\* ------------------------------------------------ recursive_dir_size ----
\* the for loop over the entries of one popped directory; st = [acc, stack]
RECURSIVE WalkEntries(_, _, _, _, _)
WalkEntries(entries, current, i, st, ctx) ==
    IF i > Len(entries) THEN st
    ELSE LET e == entries[i]
             st1 == CASE e.kind = "dir" ->
                           IF ctx.one_file_system
                           THEN IF is_same_device(e.path, ctx.root_dev)
                                THEN [st EXCEPT !.stack = Append(st.stack, e.path)]
                                ELSE st
                           ELSE [st EXCEPT !.stack = Append(st.stack, e.path)]
                      [] e.kind = "file" ->
                           [st EXCEPT !.acc = AddFile(st.acc, e, current, ctx.dedup_hard_links)]
                      [] OTHER ->
                           [st EXCEPT !.acc = DirLocalResult(
                               SaturatingAdd(st.acc.unique_sum, e.size), st.acc.hardlinks)]
         IN WalkEntries(entries, current, i + 1, st1, ctx)

\* one iteration of `while let Some(current) = stack.pop()` with cancel clear:
\* w.stack is not empty
WalkPop(w, ctx) ==
    LET n == Len(w.stack)
        current == w.stack[n]
        rest == SubSeq(w.stack, 1, n - 1)
    IN IF current \in fsys.unreadable
       THEN [acc |-> w.sub, stack |-> rest]
       ELSE WalkEntries(EntriesOf(current), current, 1,
                        [acc |-> w.sub, stack |-> rest], ctx)

\* back in the worker: unique_sum.saturating_add(sub_unique) and the or_insert loop
FoldSub(w, sub) ==
    [w EXCEPT !.pc = "enum", !.idx = w.idx + 1, !.stack = << >>,
              !.sub = DirLocalResult(0, EmptyMap),
              !.unique_sum = SaturatingAdd(w.unique_sum, sub.unique_sum),
              !.hardlinks = OrInsertAll(w.hardlinks, sub.hardlinks)]

\* ------------------------------------------------ initial states --------
\* build_tree(root, walk_config) with max_depth = depth: the directory nodes in
\* BFS order (queue = directories whose children are still to be added)
RECURSIVE BfsDirs(_, _)
BfsDirs(queue, depth) ==
    IF queue = << >> THEN << >>
    ELSE LET d == Head(queue)
             kids == IF DepthOf(d) < depth /\ d \notin fsys.unreadable
                     THEN ChildDirsOf(d) ELSE << >>
         IN << d >> \o BfsDirs(Tail(queue) \o kids, depth)

BuildTree(depth) == BfsDirs(<< Root >>, depth)

InitWith(fss, depths, threads, dedup, ofs) ==
    /\ fsys \in fss
    /\ dedup_hard_links \in dedup
    /\ one_file_system \in ofs
    /\ max_threads \in threads
    /\ max_depth \in depths
    /\ tree = BuildTree(max_depth)
    /\ needs_size_recompute = TRUE
    /\ size_compute_generation = 0
    /\ dir_sizes = EmptyMap
    /\ file_sizes = EmptyMap
    /\ dir_local_sums = EmptyMap
    /\ size_compute = NoCompute
    /\ shared = EmptyMap
    /\ workers = {}
    /\ channel = << >>
    /\ panicked = FALSE

\* ------------------------------------------------ main thread -----------
\* the Arc'ed queue / cancel / ctx of a generation live while a worker of that
\* generation or the current SizeComputeState holds them
LiveShared(sh, ws, cur) ==
    [g \in { h \in DOMAIN sh : h = cur \/ \E w \in ws : w.gen = h } |-> sh[g]]

NewWorker(g, i) ==
    [gen |-> g, id |-> i, pc |-> "check", dir |-> "none", idx |-> 0,
     unique_sum |-> 0, hardlinks |-> EmptyMap, stack |-> << >>,
     sub |-> DirLocalResult(0, EmptyMap)]

\* the generation counter left as it is
NextGeneration_Same(g) == g

\* state.size_compute_generation.wrapping_add(1)
NextGeneration(g) == (g + 1) % (U64Max + 1)

\* the restart with one cancel flag shared by all computations: the flag the
\* old computation was cancelled with is handed to the new workers
Recompute_SharedCancel ==
    /\ ~panicked
    /\ needs_size_recompute
    /\ size_compute_generation < MaxGen
    /\ LET gen == NextGeneration(size_compute_generation)
           jobs == JobsOf(tree, dir_local_sums)
           compute == NewComputeState(gen, tree, dir_local_sums, max_threads)
           fin == finalize_ready_dirs(dir_sizes, compute)
           cancelled == IF size_compute.some /\ size_compute.generation \in DOMAIN shared
                        THEN [shared EXCEPT ![size_compute.generation].cancel = TRUE]
                        ELSE shared
           ctx == [queue |-> jobs, cancel |-> size_compute.some, tree_dirs |-> Range(tree),
                   dedup_hard_links |-> dedup_hard_links,
                   one_file_system |-> one_file_system, root_dev |-> get_dev]
           spawned == { NewWorker(gen, i) : i \in 1..compute.remaining_workers }
       IN \/ /\ needs_size_recompute' = FALSE
             /\ size_compute_generation' = gen
             /\ size_compute' = fin.c
             /\ dir_sizes' = fin.ds
             /\ workers' = workers \cup spawned
             /\ shared' = LiveShared(MapInsert(cancelled, gen, ctx), workers', gen)
             /\ panicked' = FALSE
             /\ UNCHANGED << env, tree, file_sizes, dir_local_sums, channel >>
          \/ /\ fin.overflow
             /\ panicked' = TRUE
             /\ UNCHANGED << env, tree, needs_size_recompute, size_compute_generation,
                             dir_sizes, file_sizes, dir_local_sums, size_compute,
                             shared, workers, channel >>

\* `if state.needs_size_recompute { ... }` of the event loop: cancel the old
\* computation, start_size_computation, finalize_ready_dirs
Recompute ==
    /\ ~panicked
    /\ needs_size_recompute
    /\ size_compute_generation < MaxGen
    /\ LET gen == NextGeneration(size_compute_generation)
           jobs == JobsOf(tree, dir_local_sums)
           compute == NewComputeState(gen, tree, dir_local_sums, max_threads)
           fin == finalize_ready_dirs(dir_sizes, compute)
           cancelled == IF size_compute.some /\ size_compute.generation \in DOMAIN shared
                        THEN [shared EXCEPT ![size_compute.generation].cancel = TRUE]
                        ELSE shared
           ctx == [queue |-> jobs, cancel |-> FALSE, tree_dirs |-> Range(tree),
                   dedup_hard_links |-> dedup_hard_links,
                   one_file_system |-> one_file_system, root_dev |-> get_dev]
           spawned == { NewWorker(gen, i) : i \in 1..compute.remaining_workers }
       IN \/ /\ needs_size_recompute' = FALSE
             /\ size_compute_generation' = gen
             /\ size_compute' = fin.c
             /\ dir_sizes' = fin.ds
             /\ workers' = workers \cup spawned
             /\ shared' = LiveShared(MapInsert(cancelled, gen, ctx), workers', gen)
             /\ panicked' = FALSE
             /\ UNCHANGED << env, tree, file_sizes, dir_local_sums, channel >>
          \/ /\ fin.overflow
             /\ panicked' = TRUE
             /\ UNCHANGED << env, tree, needs_size_recompute, size_compute_generation,
                             dir_sizes, file_sizes, dir_local_sums, size_compute,
                             shared, workers, channel >>

\* `Some((generation, update)) = size_rx.recv()` arm of the event loop: apply
\* everything queued, then finalize_ready_dirs if a DirLocalDone was applied
ReceiveUpdates ==
    /\ ~panicked
    /\ ~needs_size_recompute
    /\ channel # << >>
    /\ \E st \in { ApplyAll(channel,
                             [fs |-> file_sizes, dls |-> dir_local_sums,
                              c |-> size_compute, need |-> FALSE],
                             size_compute_generation) } :
       \E fin \in { IF st.need /\ st.c.some
                    THEN finalize_ready_dirs(dir_sizes, st.c)
                    ELSE [c |-> st.c, ds |-> dir_sizes, overflow |-> FALSE] } :
          \/ /\ channel' = << >>
             /\ file_sizes' = st.fs
             /\ dir_local_sums' = st.dls
             /\ size_compute' = fin.c
             /\ dir_sizes' = fin.ds
             /\ panicked' = FALSE
             /\ UNCHANGED << env, tree, needs_size_recompute, size_compute_generation,
                             shared, workers >>
          \/ /\ fin.overflow
             /\ panicked' = TRUE
             /\ UNCHANGED << env, tree, needs_size_recompute, size_compute_generation,
                             dir_sizes, file_sizes, dir_local_sums, size_compute,
                             shared, workers, channel >>

\* the expand handler without the removal of the cached local result
ExpandDir_KeepCache(d) ==
    /\ ~panicked
    /\ ~needs_size_recompute
    /\ size_compute_generation < MaxGen
    /\ d \in Range(tree)
    /\ tree' = (IF \E c \in Range(tree) : ParentOf(c) = d
                THEN tree
                ELSE IF d \in fsys.unreadable THEN tree
                ELSE tree \o ChildDirsOf(d))
    /\ needs_size_recompute' = TRUE
    /\ UNCHANGED << env, size_compute_generation, dir_sizes, file_sizes, dir_local_sums,
                    size_compute, shared, workers, channel, panicked >>

\* Action::Expand on a directory row / toggle_dir_with_click / one step of
\* reveal_path_in_tree: expand_node, remove dir_local_sums[path], request a recompute
ExpandDir(d) ==
    /\ ~panicked
    /\ ~needs_size_recompute
    /\ size_compute_generation < MaxGen
    /\ d \in Range(tree)
    /\ tree' = (IF \E c \in Range(tree) : ParentOf(c) = d
                THEN tree
                ELSE IF d \in fsys.unreadable THEN tree
                ELSE tree \o ChildDirsOf(d))
    /\ dir_local_sums' = MapRemove(dir_local_sums, d)
    /\ needs_size_recompute' = TRUE
    /\ UNCHANGED << env, size_compute_generation, dir_sizes, file_sizes,
                    size_compute, shared, workers, channel, panicked >>

\* Action::Expand on a file row, or reveal_path_in_tree with no directory to
\* expand: only needs_size_recompute is set
RequestRecompute ==
    /\ ~panicked
    /\ ~needs_size_recompute
    /\ size_compute_generation < MaxGen
    /\ needs_size_recompute' = TRUE
    /\ UNCHANGED << env, tree, size_compute_generation, dir_sizes, file_sizes,
                    dir_local_sums, size_compute, shared, workers, channel, panicked >>

\* Action::Expand on a file row pressed once the worker threads have ended
\* (their last messages may still be queued)
RequestRecomputeIdle ==
    /\ workers = {}
    /\ RequestRecompute

\* settings menu, "Dedup Hard Links": the set closure of the toggle
ToggleDedupHardLinks ==
    /\ ~panicked
    /\ ~needs_size_recompute
    /\ size_compute_generation < MaxGen
    /\ dedup_hard_links' = ~dedup_hard_links
    /\ dir_local_sums' = EmptyMap
    /\ needs_size_recompute' = TRUE
    /\ UNCHANGED << fsys, one_file_system, max_threads, max_depth, tree,
                    size_compute_generation, dir_sizes, file_sizes, size_compute,
                    shared, workers, channel, panicked >>

\* settings menu, "One File System": the set closure of the toggle; ok is the
\* outcome of build_tree (Err when the root cannot be read at that moment)
ToggleOneFileSystem(ok) ==
    /\ ~panicked
    /\ ~needs_size_recompute
    /\ size_compute_generation < MaxGen
    /\ one_file_system' = ~one_file_system
    /\ IF ok
       THEN /\ tree' = BuildTree(max_depth)
            /\ file_sizes' = EmptyMap
            /\ dir_local_sums' = EmptyMap
            /\ needs_size_recompute' = TRUE
       ELSE UNCHANGED << tree, file_sizes, dir_local_sums, needs_size_recompute >>
    /\ UNCHANGED << fsys, dedup_hard_links, max_threads, max_depth,
                    size_compute_generation, dir_sizes, size_compute,
                    shared, workers, channel, panicked >>

\* ------------------------------------------------ worker threads --------
\* a channel that delivers the latest message first
Send_Front(m) == channel' = << m >> \o channel

\* tx.send((generation, update)) on the unbounded mpsc channel
Send(m) == channel' = Append(channel, m)

\* a worker thread that goes back to the loop top after its WorkerDone
Exit_BackToLoop(w) ==
    /\ workers' = (workers \ {w}) \cup { [w EXCEPT !.pc = "check"] }
    /\ UNCHANGED shared

\* the worker thread returns: its clones of the Arcs are dropped
Exit(w) ==
    /\ workers' = workers \ {w}
    /\ shared' = LiveShared(shared, workers', size_compute.generation)

Become(w, w1) ==
    /\ workers' = (workers \ {w}) \cup {w1}
    /\ UNCHANGED shared

WorkerFrame ==
    UNCHANGED << env, tree, needs_size_recompute, size_compute_generation, dir_sizes,
                 file_sizes, dir_local_sums, size_compute, panicked >>

\* the loop top without the test of the cancel flag
WorkerCheckCancel_Ignored(w) ==
    /\ ~panicked
    /\ w \in workers
    /\ w.pc = "check"
    /\ Become(w, [w EXCEPT !.pc = "pop"]) /\ UNCHANGED channel
    /\ WorkerFrame

\* loop top: `if cancel.load(Relaxed) { break; }`, and after the loop the WorkerDone
WorkerCheckCancel(w) ==
    /\ ~panicked
    /\ w \in workers
    /\ w.pc = "check"
    /\ IF shared[w.gen].cancel
       THEN Send(WorkerDoneMsg(w.gen)) /\ Exit(w)
       ELSE Become(w, [w EXCEPT !.pc = "pop"]) /\ UNCHANGED channel
    /\ WorkerFrame

\* a pop that leaves the job in the queue
PopFront_Peek(q) == q

\* what q.pop_front() leaves in the queue, taken under the queue mutex
PopFront(q) == Tail(q)

\* the pop with a read_dir failure that sends nothing
WorkerPopJob_SilentFailure(w) ==
    /\ ~panicked
    /\ w \in workers
    /\ w.pc = "pop"
    /\ LET q == shared[w.gen].queue IN
       IF q = << >>
       THEN Send(WorkerDoneMsg(w.gen)) /\ Exit(w)
       ELSE LET dir == Head(q) IN
            /\ workers' = (workers \ {w}) \cup
                 { IF dir \in fsys.unreadable
                   THEN [w EXCEPT !.pc = "check"]
                   ELSE [w EXCEPT !.pc = "enum", !.dir = dir, !.idx = 1,
                                  !.unique_sum = 0, !.hardlinks = EmptyMap] }
            /\ shared' = [shared EXCEPT ![w.gen].queue = PopFront(q)]
            /\ UNCHANGED channel
    /\ WorkerFrame

\* queue.lock(), q.pop_front(), read_dir(&dir)
WorkerPopJob(w) ==
    /\ ~panicked
    /\ w \in workers
    /\ w.pc = "pop"
    /\ LET q == shared[w.gen].queue IN
       IF q = << >>
       THEN Send(WorkerDoneMsg(w.gen)) /\ Exit(w)
       ELSE LET dir == Head(q) IN
            /\ workers' = (workers \ {w}) \cup
                 { IF dir \in fsys.unreadable
                   THEN [w EXCEPT !.pc = "check"]
                   ELSE [w EXCEPT !.pc = "enum", !.dir = dir, !.idx = 1,
                                  !.unique_sum = 0, !.hardlinks = EmptyMap] }
            /\ shared' = [shared EXCEPT ![w.gen].queue = PopFront(q)]
            /\ IF dir \in fsys.unreadable
               THEN Send(DirLocalDoneMsg(w.gen, dir, 0, EmptyMap))
               ELSE UNCHANGED channel
    /\ WorkerFrame

\* the entry loop without the test of ctx.tree_dirs: every child directory
\* that passes the device test is walked
WorkerEntry_WalksTreeDirs(w) ==
    /\ ~panicked
    /\ w \in workers
    /\ w.pc = "enum"
    /\ LET ctx == shared[w.gen]
           entries == EntriesOf(w.dir)
       IN IF w.idx > Len(entries) \/ ctx.cancel
          THEN /\ Send(DirLocalDoneMsg(w.gen, w.dir, w.unique_sum, w.hardlinks))
               /\ Become(w, [w EXCEPT !.pc = "check", !.dir = "none", !.idx = 0,
                                      !.unique_sum = 0, !.hardlinks = EmptyMap])
          ELSE LET e == entries[w.idx] IN
               CASE e.kind = "file" ->
                      LET r == AddFile(DirLocalResult(w.unique_sum, w.hardlinks),
                                       e, w.dir, ctx.dedup_hard_links)
                      IN /\ Send(FileMsg(w.gen, e.path, e.size))
                         /\ Become(w, [w EXCEPT !.idx = w.idx + 1,
                                                !.unique_sum = r.unique_sum,
                                                !.hardlinks = r.hardlinks])
                 [] e.kind = "dir" ->
                      /\ UNCHANGED channel
                      /\ IF ctx.one_file_system /\ ~is_same_device(e.path, ctx.root_dev)
                         THEN Become(w, [w EXCEPT !.idx = w.idx + 1])
                         ELSE Become(w, [w EXCEPT !.pc = "walk", !.stack = << e.path >>,
                                                  !.sub = DirLocalResult(0, EmptyMap)])
                 [] OTHER ->
                      /\ Send(FileMsg(w.gen, e.path, e.size))
                      /\ Become(w, [w EXCEPT !.idx = w.idx + 1,
                                             !.unique_sum = SaturatingAdd(w.unique_sum, e.size)])
    /\ WorkerFrame

\* one iteration of `for entry in entries.flatten()`, or the end of the loop
\* (entries exhausted, or cancel seen) followed by the DirLocalDone
WorkerEntry(w) ==
    /\ ~panicked
    /\ w \in workers
    /\ w.pc = "enum"
    /\ LET ctx == shared[w.gen]
           entries == EntriesOf(w.dir)
       IN IF w.idx > Len(entries) \/ ctx.cancel
          THEN /\ Send(DirLocalDoneMsg(w.gen, w.dir, w.unique_sum, w.hardlinks))
               /\ Become(w, [w EXCEPT !.pc = "check", !.dir = "none", !.idx = 0,
                                      !.unique_sum = 0, !.hardlinks = EmptyMap])
          ELSE LET e == entries[w.idx] IN
               CASE e.kind = "file" ->
                      LET r == AddFile(DirLocalResult(w.unique_sum, w.hardlinks),
                                       e, w.dir, ctx.dedup_hard_links)
                      IN /\ Send(FileMsg(w.gen, e.path, e.size))
                         /\ Become(w, [w EXCEPT !.idx = w.idx + 1,
                                                !.unique_sum = r.unique_sum,
                                                !.hardlinks = r.hardlinks])
                 [] e.kind = "dir" ->
                      /\ UNCHANGED channel
                      /\ IF e.path \in ctx.tree_dirs
                         THEN Become(w, [w EXCEPT !.idx = w.idx + 1])
                         ELSE IF ctx.one_file_system /\ ~is_same_device(e.path, ctx.root_dev)
                         THEN Become(w, [w EXCEPT !.idx = w.idx + 1])
                         ELSE Become(w, [w EXCEPT !.pc = "walk", !.stack = << e.path >>,
                                                  !.sub = DirLocalResult(0, EmptyMap)])
                 [] OTHER ->
                      /\ Send(FileMsg(w.gen, e.path, e.size))
                      /\ Become(w, [w EXCEPT !.idx = w.idx + 1,
                                             !.unique_sum = SaturatingAdd(w.unique_sum, e.size)])
    /\ WorkerFrame

\* recursive_dir_size: one iteration of the stack loop; when the stack runs
\* empty or cancel is seen the function returns and the worker folds the result
WorkerWalk(w) ==
    /\ ~panicked
    /\ w \in workers
    /\ w.pc = "walk"
    /\ LET ctx == shared[w.gen] IN
       IF ctx.cancel
       THEN Become(w, FoldSub(w, w.sub))
       ELSE LET st == WalkPop(w, ctx) IN
            IF st.stack = << >>
            THEN Become(w, FoldSub(w, st.acc))
            ELSE Become(w, [w EXCEPT !.stack = st.stack, !.sub = st.acc])
    /\ UNCHANGED channel
    /\ WorkerFrame

WorkerStep ==
    \E w \in workers :
        \/ WorkerCheckCancel(w)
        \/ WorkerPopJob(w)
        \/ WorkerEntry(w)
        \/ WorkerWalk(w)

\* ------------------------------------------------ specifications --------
\* The browser with its expand handlers: generations supersede one another.
\* One worker thread per computation, started on the tree { /t } or { /t, /t/sub }.
Init == InitWith(FewFileSystems, {0, 1}, {1}, {TRUE}, {FALSE})

Next ==
    \/ Recompute
    \/ ReceiveUpdates
    \/ \E d \in Range(tree) : ExpandDir(d)
    \/ RequestRecompute
    \/ WorkerStep

Spec == Init /\ [][Next]_vars

\* One computation from the first frame to convergence, no user input, one
\* worker thread, over every filesystem, configuration and initial tree depth.
InitScan == InitWith(FileSystems, {0, 1, 2}, {1}, BOOLEAN, BOOLEAN)

NextScan ==
    \/ Recompute
    \/ ReceiveUpdates
    \/ WorkerStep

SpecScan == InitScan /\ [][NextScan]_vars

\* One computation on the tree { /t, /t/a, /t/b } with up to MaxThreads workers.
InitPool == InitWith(PoolFileSystems, {1}, 1..MaxThreads, BOOLEAN, {FALSE})

SpecPool == InitPool /\ [][NextScan]_vars

\* One computation on { /t } or { /t, /t/sub } with up to MaxThreads workers,
\* the threads scheduled by the operating system and the event loop running:
\* a step that stays possible is eventually taken.
LiveFileSystems ==
    { SmallFs(c, "small") : c \in { <<1, 0>>, <<1, 1>> } } \cup { SmallFs(<<0, 1>>, "hollow") }

InitLive == InitWith(LiveFileSystems, {0, 1}, 1..MaxThreads, BOOLEAN, {FALSE})

SpecLive ==
    /\ InitLive
    /\ [][NextScan]_vars
    /\ WF_vars(Recompute)
    /\ WF_vars(ReceiveUpdates)
    /\ WF_vars(WorkerStep)

\* The browser with its settings menu on the tree { /t }, whose job walks
\* /t/sub and, unless one_file_system stops it, the mounted /t/sub/m: the two
\* flags are toggled and recomputes requested while computations run.
InitUi == InitWith({ MountFs }, {0}, {1}, {TRUE}, {FALSE})

NextUi ==
    \/ Recompute
    \/ ReceiveUpdates
    \/ RequestRecompute
    \/ ToggleDedupHardLinks
    \/ \E ok \in BOOLEAN : ToggleOneFileSystem(ok)
    \/ WorkerStep

SpecUi == InitUi /\ [][NextUi]_vars

\* Computations started one after the other on { /t } or { /t, /t/sub }
\* with up to MaxThreads workers: a recompute is requested after the workers
\* of the previous computation have ended, with all, some or none of the local
\* results cached by then.
InitStart == InitWith(FewFileSystems, {0, 1}, 1..MaxThreads, {TRUE}, {FALSE})

NextStart ==
    \/ Recompute
    \/ ReceiveUpdates
    \/ RequestRecomputeIdle
    \/ WorkerStep

SpecStart == InitStart /\ [][NextStart]_vars

\* ------------------------------------------------ reference values ------
\* every tree directory of the current computation has been finalised
Converged ==
    /\ size_compute.some
    /\ ~needs_size_recompute
    /\ size_compute.generation = size_compute_generation
    /\ Range(size_compute.dirs) = size_compute.finished

\* the directories on the path from d (exclusive) down to e (inclusive); e is under d
RECURSIVE PathBelow(_, _)
PathBelow(d, e) == IF e = d THEN {} ELSE {e} \cup PathBelow(d, ParentOf(e))

\* the walk of the job for tree directory d reads the entries of directory e:
\* e is d itself, or e lies below a non-tree child of d and recursive_dir_size
\* reaches it (every directory on the way is readable and, under
\* one_file_system, on the root's device)
Reads(d, e, tree_dirs, ofs) ==
    /\ IsUnder(e, d)
    /\ d \notin fsys.unreadable
    /\ e # d =>
         /\ \A c \in PathBelow(d, e) : ParentOf(c) = d => c \notin tree_dirs
         /\ \A c \in PathBelow(d, e) : c \notin fsys.unreadable
         /\ ofs => \A c \in PathBelow(d, e) : DevOf(c) = DevOf(Root)

\* the file and symlink entries a complete walk of job d accounts for, as
\* pairs << directory, index into its entries >>
LocalEntries(d, tree_dirs, ofs) ==
    { p \in UNION { { << e, i >> : i \in 1..Len(EntriesOf(e)) } : e \in Dirs } :
        /\ Reads(d, p[1], tree_dirs, ofs)
        /\ EntriesOf(p[1])[p[2]].kind # "dir" }

EntryAt(p) == EntriesOf(p[1])[p[2]]

\* the entry is counted through the hard-link map
IsLinked(p, dedup) == EntryAt(p).kind = "file" /\ dedup /\ EntryAt(p).ino # 0

KeyOf(p) == << DevOf(p[1]), EntryAt(p).ino >>

RECURSIVE SumSizes(_)
\* exact sum of the sizes of a set of entries
SumSizes(S) ==
    IF S = {} THEN 0
    ELSE LET p == CHOOSE x \in S : TRUE IN EntryAt(p).size + SumSizes(S \ {p})

Saturate(n) == IF n > U64Max THEN U64Max ELSE n

\* the hard-link map of a set of entries: inode key -> apparent size
LinkMap(S, dedup) ==
    [k \in { KeyOf(p) : p \in { q \in S : IsLinked(q, dedup) } } |->
        EntryAt(CHOOSE p \in S : IsLinked(p, dedup) /\ KeyOf(p) = k).size]

\* the DirLocalResult of a complete walk of job d
FullLocal(d, tree_dirs, dedup, ofs) ==
    LET S == LocalEntries(d, tree_dirs, ofs) IN
    DirLocalResult(Saturate(SumSizes({ p \in S : ~IsLinked(p, dedup) })),
                   LinkMap(S, dedup))

\* the entries accounted for in the total of tree directory d: those of the
\* jobs of d and of the tree directories below d
TotalEntries(d, tree_dirs, ofs) ==
    UNION { LocalEntries(c, tree_dirs, ofs) : c \in { c \in tree_dirs : IsUnder(c, d) } }

\* the total a cold computation on the tree publishes for d, as the code
\* computes it: saturating adds, and a wrapping sum over the merged map
ColdTotal(d, tree_dirs, dedup, ofs) ==
    LET S == TotalEntries(d, tree_dirs, ofs) IN
    SaturatingAdd(Saturate(SumSizes({ p \in S : ~IsLinked(p, dedup) })),
                  WrappingSum(LinkMap(S, dedup)))

\* the same total with every addition saturating
SaturatedTotal(d, tree_dirs, dedup, ofs) ==
    LET S == TotalEntries(d, tree_dirs, ofs)
        m == LinkMap(S, dedup)
    IN Saturate(SumSizes({ p \in S : ~IsLinked(p, dedup) }) + SumOver(m, DOMAIN m))

\* ------------------------------------------------ properties ------------
\* the messages of a batch that carry the current generation
RECURSIVE FreshOnly(_, _)
FreshOnly(msgs, cur_gen) ==
    IF msgs = << >> THEN << >>
    ELSE IF Head(msgs).gen = cur_gen
         THEN << Head(msgs) >> \o FreshOnly(Tail(msgs), cur_gen)
         ELSE FreshOnly(Tail(msgs), cur_gen)

\* dir_sizes and dir_local_sums after the event loop has received msgs
AfterBatch(msgs) ==
    LET st == ApplyAll(msgs, [fs |-> file_sizes, dls |-> dir_local_sums,
                              c |-> size_compute, need |-> FALSE],
                       size_compute_generation)
        fin == IF st.need /\ st.c.some
               THEN finalize_ready_dirs(dir_sizes, st.c)
               ELSE [c |-> st.c, ds |-> dir_sizes, overflow |-> FALSE]
    IN << fin.ds, st.dls >>

\* C1: once a computation has been superseded, no update tagged with its
\* generation (or an older one) changes dir_sizes or dir_local_sums: whatever
\* batch the event loop receives, dir_sizes and dir_local_sums end up as if the
\* updates of superseded generations had not been in the batch at all, and a
\* batch made of such updates only leaves both maps as they were.
C1_StaleUpdatesIgnored ==
    [][ (channel # << >> /\ channel' = << >> /\ ~panicked')
        => /\ << dir_sizes', dir_local_sums' >>
                = AfterBatch(FreshOnly(channel, size_compute_generation))
           /\ FreshOnly(channel, size_compute_generation) = << >>
                => UNCHANGED << dir_sizes, dir_local_sums >> ]_vars

\* a DirLocalDone of the superseded generation 1 is queued behind a
\* DirLocalDone of generation 2 for the same directory with another result
C1_Witness ==
    /\ size_compute_generation = 2
    /\ \E i, j \in 1..Len(channel) :
          /\ channel[i].type = "DirLocalDone" /\ channel[i].gen = 2
          /\ channel[j].type = "DirLocalDone" /\ channel[j].gen = 1
          /\ i < j
          /\ channel[i].dir = channel[j].dir
          /\ channel[i].unique_sum # channel[j].unique_sum

\* every file and symlink entry of the file system
AllEntries ==
    { p \in UNION { { << e, i >> : i \in 1..Len(EntriesOf(e)) } : e \in Dirs } :
        EntryAt(p).kind # "dir" }

\* the scan leaves nothing out: every directory is readable, and no directory
\* outside the tree is skipped for being on another device
NothingSkipped ==
    /\ fsys.unreadable = {}
    /\ one_file_system => fsys.mount \subseteq Range(tree)

\* C2: with dedup_hard_links, once the computation has converged, dir_sizes of
\* the root is the sum of the apparent sizes of the files the scan reaches under
\* the root, a file with nlink > 1 counted once per distinct (dev, ino) however
\* its links are spread over the subdirectories (sums saturate at the top of u64).
C2_RootTotalLaw ==
    (Converged /\ dedup_hard_links)
    => /\ Root \in DOMAIN dir_sizes
       /\ dir_sizes[Root] = SaturatedTotal(Root, Range(tree), TRUE, one_file_system)

\* C3: for every finalised tree directory d, an inode key found in the local
\* results of several directories of d's subtree is one entry, with the size of
\* one link, of the merged map d hands to its parent, and enters dir_sizes[d]
\* once; every finalised tree directory below d holding a link has that size
\* once in its own total.
C3_SharedInodeOnce ==
    size_compute.some =>
      LET td == Range(size_compute.dirs) IN
      /\ \A d \in size_compute.finished :
            /\ d \in DOMAIN dir_sizes
            /\ dir_sizes[d] = ColdTotal(d, td, dedup_hard_links, one_file_system)
      /\ \A p \in td \ size_compute.finished :
            p \in DOMAIN size_compute.children_hardlinks
            => size_compute.children_hardlinks[p]
                 = LinkMap(UNION { TotalEntries(c, td, one_file_system) :
                                     c \in { c \in size_compute.finished : ParentOf(c) = p } },
                           dedup_hard_links)

\* the tree directories /t/a and /t/b each hold a link to the same inode, both
\* are finalised with that link in their totals, and the root is finalised
C3_Witness ==
    /\ Converged /\ dedup_hard_links
    /\ {"/t/a", "/t/b"} \subseteq size_compute.finished
    /\ LET td == Range(size_compute.dirs)
           ha == FullLocal("/t/a", td, TRUE, one_file_system).hardlinks
           hb == FullLocal("/t/b", td, TRUE, one_file_system).hardlinks
       IN /\ DOMAIN ha \cap DOMAIN hb # {}
          /\ dir_sizes[Root] < dir_sizes["/t/a"] + dir_sizes["/t/b"]

\* C4: without dedup_hard_links, once the computation has converged, dir_sizes
\* of the root is the plain (saturating) sum of the apparent sizes of the
\* regular files and symlinks the scan reaches under the root, every link of a
\* hard-linked file counted; when the scan skips nothing these are all the
\* regular files and symlinks under the root.
C4_NaiveSumWithoutDedup ==
    (Converged /\ ~dedup_hard_links)
    => /\ Root \in DOMAIN dir_sizes
       /\ dir_sizes[Root]
            = Saturate(SumSizes(TotalEntries(Root, Range(tree), one_file_system)))
       /\ NothingSkipped => dir_sizes[Root] = Saturate(SumSizes(AllEntries))

\* converged without dedup on a file system with hard links in several
\* directories and a symlink, nothing skipped
C4_Witness ==
    /\ Converged /\ ~dedup_hard_links /\ NothingSkipped
    /\ \E p, q \in AllEntries :
          /\ p # q /\ EntryAt(p).kind = "file" /\ EntryAt(q).kind = "file"
          /\ EntryAt(p).ino # 0 /\ EntryAt(p).ino = EntryAt(q).ino
    /\ \E p \in AllEntries : EntryAt(p).kind = "symlink"
    /\ dir_sizes[Root] = Saturate(SumSizes(AllEntries))

\* C5: the converged dir_sizes is a function of the tree and the file system
\* only: whatever the number of workers and the interleaving of workers and
\* event loop, every tree directory ends with the total of the cold computation.
C5_Deterministic ==
    Converged
    => \A d \in Range(tree) :
          /\ d \in DOMAIN dir_sizes
          /\ dir_sizes[d] = ColdTotal(d, Range(tree), dedup_hard_links, one_file_system)

\* converged with a pool of two or more workers over three tree directories
C5_Witness ==
    /\ Converged
    /\ max_threads >= 2
    /\ Len(tree) = 3
    /\ size_compute.remaining_workers = 0

\* C6: once converged, the total of a tree directory is at least the total of
\* each of its tree children.
C6_Conservation ==
    Converged
    => \A d, c \in Range(tree) :
          ParentOf(c) = d => dir_sizes[d] >= dir_sizes[c]

\* a converged computation whose restart has been requested with the tree and
\* the cached local results as the computation left them
ConvergedRestartPending ==
    /\ size_compute.some
    /\ size_compute.generation = size_compute_generation
    /\ Range(size_compute.dirs) = size_compute.finished
    /\ needs_size_recompute
    /\ Range(tree) = Range(size_compute.dirs)
    /\ Range(tree) \subseteq DOMAIN dir_local_sums

\* C7: a converged computation has cached the local result of every tree
\* directory, and starting a computation again with the tree unchanged enqueues
\* no job, spawns no worker, and the finalise pass that follows leaves dir_sizes
\* as it was, every tree directory finalised again.
C7_IdempotentRestart ==
    /\ [](Converged => Range(tree) \subseteq DOMAIN dir_local_sums)
    /\ [][ (ConvergedRestartPending
            /\ size_compute_generation' = size_compute_generation + 1)
           => /\ shared'[size_compute_generation'].queue = << >>
              /\ \A w \in workers' : w.gen # size_compute_generation'
              /\ size_compute'.remaining_workers = 0
              /\ dir_sizes' = dir_sizes
              /\ Converged' ]_vars

\* the restarted computation, generation 2, converged without a job or a worker
\* while the worker of generation 1 has not exited yet
C7_Witness ==
    /\ Converged
    /\ size_compute_generation = 2
    /\ shared[2].queue = << >>
    /\ size_compute.remaining_workers = 0
    /\ workers # {}
    /\ \A w \in workers : w.gen = 1 /\ w.pc = "check"
    /\ \A i \in 1..Len(channel) : channel[i].gen = 1
    /\ max_depth = 1

ExpandedAfterConvergence ==
    /\ size_compute.some
    /\ size_compute.dirs = << "/t" >>
    /\ size_compute.finished = {"/t"}
    /\ tree = << "/t", "/t/sub" >>
    /\ "/t" \notin DOMAIN dir_local_sums
    /\ needs_size_recompute

\* C9 as claimed: in the incremental-expand scenario the second start enqueues
\* exactly one job, for /t.
C9_OneJob ==
    [][ (ExpandedAfterConvergence
         /\ size_compute_generation' = size_compute_generation + 1)
        => shared'[size_compute_generation'].queue = << "/t" >> ]_vars

\* C9 amended: in the incremental-expand scenario the second start enqueues
\* exactly two jobs, for /t and for /t/sub, and spawns workers for them; the
\* local result of /t/sub, which has no cached entry, is computed by its own job.
C9_TwoJobs ==
    [][ (ExpandedAfterConvergence
         /\ size_compute_generation' = size_compute_generation + 1)
        => /\ shared'[size_compute_generation'].queue = << "/t", "/t/sub" >>
           /\ size_compute'.remaining_workers = Min(max_threads, 2)
           /\ size_compute'.finished = {} ]_vars

\* the second start has just run in the scenario: /t carries the total of the
\* first computation, /t/sub has none yet, and the queue holds both jobs
C9_Witness ==
    /\ max_depth = 0
    /\ tree = << "/t", "/t/sub" >>
    /\ size_compute.some /\ size_compute.dirs = << "/t/sub", "/t" >>
    /\ size_compute.generation \in DOMAIN shared
    /\ shared[size_compute.generation].queue = << "/t", "/t/sub" >>
    /\ "/t" \in DOMAIN dir_sizes
    /\ "/t/sub" \notin DOMAIN dir_sizes

\* C10: a worker stops enumerating early only when its computation has been
\* superseded, so the partial local result it sends is dropped by the generation
\* filter: every local result held in local_done or dir_local_sums is the
\* result of a complete walk, and so is every local result still queued under
\* the current generation; dir_sizes of a finalised directory is the total of
\* complete walks.
C10_PartialResultDropped ==
    /\ \A w \in workers :
          (w.gen \in DOMAIN shared /\ shared[w.gen].cancel)
          => w.gen < size_compute_generation
    /\ \A i \in 1..Len(channel) :
          (channel[i].type = "DirLocalDone" /\ channel[i].gen = size_compute_generation
           /\ size_compute.some)
          => DirLocalResult(channel[i].unique_sum, channel[i].hardlinks)
               = FullLocal(channel[i].dir, Range(size_compute.dirs),
                           dedup_hard_links, one_file_system)
    /\ size_compute.some
          => /\ \A d \in DOMAIN size_compute.local_done :
                   size_compute.local_done[d]
                     = FullLocal(d, Range(size_compute.dirs),
                                 dedup_hard_links, one_file_system)
             /\ \A d \in size_compute.finished :
                   dir_sizes[d] = ColdTotal(d, Range(size_compute.dirs),
                                            dedup_hard_links, one_file_system)
    /\ \A d \in DOMAIN dir_local_sums \cap Range(tree) :
          dir_local_sums[d]
            = FullLocal(d, Range(tree), dedup_hard_links, one_file_system)

\* a worker of the superseded generation saw its cancel flag in the middle of
\* /t and sent a local result that lacks entries of the complete walk; the
\* message is queued while the current computation runs
C10_Witness ==
    /\ size_compute.some
    /\ \E i \in 1..Len(channel) :
          /\ channel[i].type = "DirLocalDone"
          /\ channel[i].gen < size_compute_generation
          /\ channel[i].dir = "/t"
          /\ channel[i].hardlinks # EmptyMap
          /\ DirLocalResult(channel[i].unique_sum, channel[i].hardlinks)
               # FullLocal("/t", {"/t"}, dedup_hard_links, one_file_system)
          /\ max_depth = 0 /\ tree = << "/t" >>

\* the computation has run to completion: no job is left in the queue, every
\* tree directory is finalised with a dir_sizes entry, no worker is outstanding
RunToCompletion ==
    /\ Converged
    /\ Range(tree) \subseteq DOMAIN dir_sizes
    /\ size_compute.remaining_workers = 0
    /\ size_compute_generation \in DOMAIN shared
    /\ shared[size_compute_generation].queue = << >>
    /\ workers = {}

\* C11: a computation that is never superseded or cancelled runs to completion
\* under fair scheduling of the worker threads and of the event loop: every
\* queued job is popped, every tree directory becomes finished with a dir_sizes
\* entry, and remaining_workers reaches 0 - and stays so.
C11_RunsToCompletion == <>[]RunToCompletion

\* completed with two worker threads, each having had a job
C11_Witness ==
    /\ RunToCompletion
    /\ max_threads = 2
    /\ Len(tree) = 2
    /\ channel = << >>

\* C12: every addition made while sizes are accumulated saturates at the top of
\* u64 and none wraps or traps: the event loop never panics on an overflow,
\* and the total of every finalised directory is the exact sum of what it
\* accounts for, clamped to the top of u64.
C12_AllAdditionsSaturate ==
    /\ ~panicked
    /\ size_compute.some
         => \A d \in size_compute.finished :
               dir_sizes[d] = SaturatedTotal(d, Range(size_compute.dirs),
                                             dedup_hard_links, one_file_system)

\* the compute state finalize_ready_dirs is called on in the step being taken:
\* the one start_size_computation returns, or the one the batch was applied to
PreFinalize ==
    IF size_compute_generation' # size_compute_generation
    THEN NewComputeState(size_compute_generation', tree, dir_local_sums, max_threads)
    ELSE IF channel # << >> /\ channel' = << >>
    THEN ApplyAll(channel, [fs |-> file_sizes, dls |-> dir_local_sums,
                            c |-> size_compute, need |-> FALSE],
                  size_compute_generation).c
    ELSE size_compute

\* C13: when finalise finalises a directory d whose accumulators are complete
\* on entry, it writes dir_sizes[d] = local.unique_sum + children_unique[d] +
\* the sum of the values of the merge of d's local hard-link map with
\* children_hardlinks[d] (sums clamped to the top of u64); an empty directory
\* without tree children gets 0.
C13_TotalFormula ==
    [][ \A d \in size_compute'.finished \ PreFinalize.finished :
          (d \in DOMAIN PreFinalize.local_done /\ PreFinalize.pending_children[d] = 0)
          => LET local == PreFinalize.local_done[d]
                 merged == OrInsertAll(local.hardlinks, PreFinalize.children_hardlinks[d])
             IN /\ dir_sizes'[d] = Saturate(local.unique_sum
                                            + PreFinalize.children_unique[d]
                                            + SumOver(merged, DOMAIN merged))
                /\ (EntriesOf(d) = << >> /\ d \notin fsys.unreadable)
                     => dir_sizes'[d] = 0 ]_vars

\* nothing is running and nothing is queued
Quiescent ==
    /\ ~panicked
    /\ ~needs_size_recompute
    /\ workers = {}
    /\ channel = << >>

\* C14: a tree directory that cannot be enumerated still gets a DirLocalDone,
\* with unique_sum 0 and an empty hard-link map, as soon as its job is taken;
\* it finalises with zero local contribution (dir_sizes = 0 without tree
\* children) and blocks nobody: when the workers have ended and the channel
\* is drained every tree directory is finalised.
C14_ReadFailure ==
    /\ \A i \in 1..Len(channel) :
          (channel[i].type = "DirLocalDone" /\ channel[i].dir \in fsys.unreadable)
          => channel[i].unique_sum = 0 /\ channel[i].hardlinks = EmptyMap
    /\ (size_compute.some /\ size_compute_generation \in DOMAIN shared)
         => \A d \in Range(size_compute.dirs) \cap fsys.unreadable :
               /\ d \notin Range(shared[size_compute_generation].queue)
                    => \/ d \in size_compute.finished
                       \/ d \in DOMAIN size_compute.local_done
                       \/ \E i \in 1..Len(channel) :
                             channel[i].type = "DirLocalDone" /\ channel[i].dir = d
               /\ d \in DOMAIN size_compute.local_done
                    => size_compute.local_done[d] = DirLocalResult(0, EmptyMap)
               /\ (d \in size_compute.finished
                   /\ ~\E c \in Range(size_compute.dirs) : ParentOf(c) = d)
                    => dir_sizes[d] = 0
    /\ Quiescent => Converged

\* /t/a cannot be read: it is finalised with 0, the job after it (/t/b) was
\* done by the same worker, and the root is finalised with the rest
C14_Witness ==
    /\ Converged
    /\ fsys.unreadable = {"/t/a"}
    /\ tree = << "/t", "/t/a", "/t/b" >>
    /\ dir_sizes["/t/a"] = 0
    /\ dir_sizes["/t/b"] > 0
    /\ dir_sizes[Root] > dir_sizes["/t/b"]
    /\ Quiescent

\* C15: starting a computation modifies neither file_sizes nor dir_local_sums,
\* and no dir_sizes entry is ever removed: an entry keeps its value until the
\* finalise pass of a step finalises that directory and overwrites it.
C15_StartKeepsTotals ==
    [][ /\ size_compute_generation' # size_compute_generation
            => file_sizes' = file_sizes /\ dir_local_sums' = dir_local_sums
        /\ DOMAIN dir_sizes \subseteq DOMAIN dir_sizes'
        /\ \A d \in DOMAIN dir_sizes :
              dir_sizes'[d] # dir_sizes[d]
              => d \in size_compute'.finished \ PreFinalize.finished ]_vars

\* the second computation is running and has not finalised /t yet, whose total
\* of the first computation is still in dir_sizes
C15_Witness ==
    /\ size_compute.some
    /\ size_compute.generation = 2
    /\ size_compute_generation = 2
    /\ "/t" \in DOMAIN dir_sizes
    /\ "/t" \notin size_compute.finished
    /\ "/t/f" \in DOMAIN file_sizes

\* C16: every start assigns a generation greater than that of every earlier
\* computation: greater than the previous counter, than the generation of every
\* worker still alive and of every update still queued; so no update of a
\* superseded computation carries the current generation.
C16_GenerationIncreases ==
    [][ (needs_size_recompute /\ ~needs_size_recompute')
        => /\ size_compute_generation' > size_compute_generation
           /\ size_compute'.generation = size_compute_generation'
           /\ \A w \in workers : w.gen < size_compute_generation'
           /\ \A i \in 1..Len(channel) : channel[i].gen < size_compute_generation'
           /\ \A g \in DOMAIN shared : g < size_compute_generation' ]_vars

\* generation 2 has started while a worker and a queued update of generation 1
\* are still around
C16_Witness ==
    /\ size_compute_generation = 2
    /\ size_compute.generation = 2
    /\ \E w \in workers : w.gen = 1
    /\ \E i \in 1..Len(channel) : channel[i].gen = 1

\* d is a tree directory with tree child c and a regular file of at least
\* least bytes directly inside it
HasLocalFileAndChild(d, c, least) ==
    /\ d \in Range(tree) /\ c \in Range(tree)
    /\ ParentOf(c) = d
    /\ d \notin fsys.unreadable
    /\ \E i \in 1..Len(EntriesOf(d)) :
          EntriesOf(d)[i].kind = "file" /\ EntriesOf(d)[i].size >= least

OwnLevel(d) ==
    IF d \in fsys.unreadable THEN {}
    ELSE { EntriesOf(d)[i] : i \in { j \in 1..Len(EntriesOf(d)) : EntriesOf(d)[j].kind # "dir" } }

\* C18: the File message of every file of a directory's own level precedes the
\* directory's DirLocalDone in the channel, unless the event loop has already
\* received it, and updates are applied in that order: whenever the local
\* result of d is held (local_done, dir_local_sums), file_sizes holds the size
\* of every file of d's own level.
C18_FilesBeforeDirLocalDone ==
    /\ \A j \in 1..Len(channel) :
          (channel[j].type = "DirLocalDone" /\ channel[j].gen = size_compute_generation
           /\ size_compute.some)
          => \A e \in OwnLevel(channel[j].dir) :
                \/ \E i \in 1..(j - 1) :
                      channel[i] = FileMsg(channel[j].gen, e.path, e.size)
                \/ (e.path \in DOMAIN file_sizes /\ file_sizes[e.path] = e.size)
    /\ \A d \in DOMAIN dir_local_sums \cup DOMAIN size_compute.local_done :
          \A e \in OwnLevel(d) :
             e.path \in DOMAIN file_sizes /\ file_sizes[e.path] = e.size
    /\ \A j \in 1..Len(channel) :
          channel[j].type = "DirLocalDone"
          => \A i \in (j + 1)..Len(channel) :
                ~(/\ channel[i].type = "File"
                  /\ channel[i].gen = channel[j].gen
                  /\ \E e \in OwnLevel(channel[j].dir) : e.path = channel[i].path)

\* the local result of /t/b is held, with both of its files in file_sizes,
\* while File messages of another directory are still queued
C18_Witness ==
    /\ "/t/b" \in DOMAIN dir_local_sums
    /\ {"/t/b/f", "/t/b/l"} \subseteq DOMAIN file_sizes
    /\ "/t/f" \notin DOMAIN file_sizes
    /\ \E i \in 1..Len(channel) : channel[i].type = "File" /\ channel[i].path = "/t/f"
    /\ max_threads >= 2

\* C19: a finalised directory has every tree child finalised, and what a
\* directory not yet finalised has accumulated is exactly the contribution of
\* its finalised tree children: children_unique their unique totals,
\* children_hardlinks the merge of their hard-link maps - whatever the order in
\* which the DirLocalDone messages arrived and however often finalise ran.
C19_ChildrenBeforeParent ==
    size_compute.some =>
      LET td == Range(size_compute.dirs)
          Done(p) == { c \in size_compute.finished : ParentOf(c) = p }
          Folded(p) == UNION { TotalEntries(c, td, one_file_system) : c \in Done(p) }
      IN /\ \A d \in size_compute.finished :
               \A c \in td : ParentOf(c) = d => c \in size_compute.finished
         /\ \A p \in td \ size_compute.finished :
               /\ size_compute.children_unique[p]
                    = Saturate(SumSizes({ e \in Folded(p) : ~IsLinked(e, dedup_hard_links) }))
               /\ DOMAIN size_compute.children_hardlinks[p]
                    = { KeyOf(e) : e \in { x \in Folded(p) : IsLinked(x, dedup_hard_links) } }

\* the local result of the root arrived first and waits in local_done while a
\* child is finalised and folded and the other is not
C19_Witness ==
    /\ size_compute.some
    /\ Root \in DOMAIN size_compute.local_done
    /\ Root \notin size_compute.finished
    /\ "/t/b" \in size_compute.finished
    /\ "/t/a" \notin size_compute.finished
    /\ size_compute.children_unique[Root] > 0

\* C20: pending_children[d] is the number of tree child directories of d not
\* yet finalised, in every state of a computation.
C20_PendingChildren ==
    size_compute.some =>
      \A d \in Range(size_compute.dirs) :
         /\ d \in DOMAIN size_compute.pending_children
         /\ size_compute.pending_children[d]
              = Cardinality({ c \in Range(size_compute.dirs) :
                                ParentOf(c) = d /\ c \notin size_compute.finished })

\* /t/b is finalised and the root, started at 2, waits for /t/a alone, which
\* itself waits for /t/a/x
C20_Witness ==
    /\ size_compute.some
    /\ tree = << "/t", "/t/a", "/t/b", "/t/a/x" >>
    /\ size_compute.finished = {"/t/b"}
    /\ size_compute.pending_children["/t/a"] = 1
    /\ size_compute.pending_children[Root] = 1

\* C21: when finalise is called on a computation whose local_done holds a
\* result for every one of its N directories, that one call finalises all N,
\* each once: afterwards finished is the whole directory list, local_done is
\* empty, every directory has its dir_sizes entry, and nothing is left ready.
C21_SinglePass ==
    [][ (/\ ~panicked'
         /\ size_compute_generation' # size_compute_generation
              \/ (channel # << >> /\ channel' = << >>))
        => \A pre \in {PreFinalize} :
              (/\ pre.some
               /\ pre.finished = {}
               /\ DOMAIN pre.local_done = Range(pre.dirs))
              => /\ size_compute'.finished = Range(pre.dirs)
                 /\ Cardinality(size_compute'.finished) = Len(pre.dirs)
                 /\ size_compute'.local_done = EmptyMap
                 /\ Range(pre.dirs) \subseteq DOMAIN dir_sizes' ]_vars

\* the second computation on { /t, /t/sub } found both local results cached
\* and was finalised whole by the call that follows its start: it never had a
\* worker or a job
C21_Witness ==
    /\ size_compute.some
    /\ size_compute.generation = 2
    /\ size_compute.dirs = << "/t/sub", "/t" >>
    /\ size_compute.finished = {"/t", "/t/sub"}
    /\ size_compute.local_done = EmptyMap
    /\ size_compute.remaining_workers = 0
    /\ \A w \in workers : w.gen # 2
    /\ \A i \in 1..Len(channel) : channel[i].gen # 2

\* how far a worker that sees the cancel flag is from its exit: it has yet to
\* pop, is inside recursive_dir_size, is inside the entry loop, or is at the
\* loop top
CancelRank(w) ==
    CASE w.pc = "pop" -> 4
      [] w.pc = "walk" -> 3
      [] w.pc = "enum" -> 2
      [] OTHER -> 1

\* C22: once the cancel flag of a computation is set it stays set, and every
\* step of one of its workers brings that worker nearer to its exit: only a
\* worker that had passed the loop-top check takes a job (one), a message it
\* sends is the DirLocalDone that ends its current job (no File) or the
\* WorkerDone with which it terminates. So a worker pops at most one further
\* job and sends at most one further DirLocalDone, and the other queued jobs
\* stay in the queue.
C22_CancelStopsWorkers ==
    [][ \A w \in workers :
          (w.gen \in DOMAIN shared /\ shared[w.gen].cancel)
          => \/ w \in workers'
             \/ /\ ~\E v \in workers' : v.gen = w.gen /\ v.id = w.id
                /\ channel' = Append(channel, WorkerDoneMsg(w.gen))
                /\ w.gen \in DOMAIN shared' => shared'[w.gen].queue = shared[w.gen].queue
             \/ \E v \in workers' :
                   /\ v.gen = w.gen /\ v.id = w.id
                   /\ CancelRank(v) < CancelRank(w)
                   /\ w.gen \in DOMAIN shared' /\ shared'[w.gen].cancel
                   /\ shared'[w.gen].queue # shared[w.gen].queue
                        => /\ w.pc = "pop"
                           /\ shared'[w.gen].queue = Tail(shared[w.gen].queue)
                   /\ channel' # channel
                        => /\ v.pc = "check"
                           /\ \E m \in { channel'[Len(channel')] } :
                                 /\ channel' = Append(channel, m)
                                 /\ m.type = "DirLocalDone" /\ m.gen = w.gen ]_vars

\* the first computation was cancelled while its worker was on the job of /t:
\* the worker has sent the DirLocalDone of that job and is back at the loop
\* top, and the job of /t/sub is still in the queue
C22_Witness ==
    /\ size_compute_generation = 2
    /\ 1 \in DOMAIN shared
    /\ shared[1].cancel
    /\ shared[1].queue = << "/t/sub" >>
    /\ \E w \in workers : w.gen = 1 /\ w.pc = "check"
    /\ \E i \in 1..Len(channel) :
          /\ channel[i].type = "DirLocalDone" /\ channel[i].gen = 1
          /\ channel[i].dir = "/t"

\* C23: a step that makes a directory a tree node below d removes
\* dir_local_sums[d] and requests a recompute in that same step, before the
\* event loop receives anything further; so the cached local result of a tree
\* directory is always the result of a walk that skips its present tree
\* children, and at every start the results taken from the cache are of that
\* kind: no subtree enters both d's local result and the cascade.
C23_ExpandInvalidates ==
    [][ /\ \A d \in Range(tree) :
              (\E c \in Range(tree') \ Range(tree) : ParentOf(c) = d)
              => /\ d \notin DOMAIN dir_local_sums'
                 /\ needs_size_recompute'
                 /\ channel' = channel
        /\ \A d \in DOMAIN dir_local_sums' :
              /\ d \in Range(tree')
              /\ dir_local_sums'[d]
                   = FullLocal(d, Range(tree'), dedup_hard_links', one_file_system')
        /\ size_compute_generation' # size_compute_generation
              => \A d \in DOMAIN PreFinalize.local_done :
                    PreFinalize.local_done[d]
                      = FullLocal(d, Range(tree), dedup_hard_links, one_file_system) ]_vars

\* /t was expanded after the first computation had cached its local result
\* with /t/sub walked as a non-tree directory; the second computation has
\* cached for /t the result of a walk that leaves /t/sub to the cascade
C23_Witness ==
    /\ max_depth = 0
    /\ tree = << "/t", "/t/sub" >>
    /\ size_compute_generation = 2
    /\ "/t" \in DOMAIN dir_local_sums
    /\ dir_local_sums["/t"]
         = FullLocal("/t", {"/t", "/t/sub"}, dedup_hard_links, one_file_system)
    /\ dir_local_sums["/t"]
         # FullLocal("/t", {"/t"}, dedup_hard_links, one_file_system)

\* C24: a step that changes dedup_hard_links or one_file_system empties
\* dir_local_sums and requests a recompute, and every local result a starting
\* computation takes from the cache is the result of a walk under the flag
\* values that computation runs with - whether or not the tree rebuild of the
\* one_file_system toggle succeeds.
C24_FlagChangeClearsCache ==
    [][ /\ (dedup_hard_links' # dedup_hard_links \/ one_file_system' # one_file_system)
              => /\ dir_local_sums' = EmptyMap
                 /\ needs_size_recompute'
        /\ size_compute_generation' # size_compute_generation
              => \A d \in DOMAIN PreFinalize.local_done :
                    PreFinalize.local_done[d]
                      = FullLocal(d, Range(tree), dedup_hard_links, one_file_system) ]_vars

\* the positions of the WorkerDone messages of generation g in the channel
WorkerDonesOf(g) ==
    { i \in 1..Len(channel) : channel[i] = WorkerDoneMsg(g) }

\* C25: in the current computation remaining_workers is the number of worker
\* threads still running plus the number of WorkerDone messages not yet
\* received, never more than the worker count (one WorkerDone per worker, and
\* none from a thread that has ended); once every worker has ended the last
\* queued message of the generation is a WorkerDone; and remaining_workers is
\* 0 only when no worker runs, nothing of the generation is queued, and every
\* job's DirLocalDone has been applied (the whole tree is finalised).
C25_OneWorkerDoneEach ==
    (size_compute.some /\ size_compute.generation = size_compute_generation)
    => LET g == size_compute.generation
           live == { w \in workers : w.gen = g }
           queued == { i \in 1..Len(channel) : channel[i].gen = g }
       IN /\ size_compute.remaining_workers
               = Cardinality(live) + Cardinality(WorkerDonesOf(g))
          /\ size_compute.remaining_workers
               <= Min(max_threads, Len(size_compute.dirs))
          /\ (live = {} /\ queued # {})
               => \E i \in WorkerDonesOf(g) : \A j \in queued : j <= i
          /\ size_compute.remaining_workers = 0
               => /\ live = {}
                  /\ queued = {}
                  /\ g \in DOMAIN shared => shared[g].queue = << >>
                  /\ panicked \/ size_compute.finished = Range(size_compute.dirs)

\* two workers were spawned; one has ended and its WorkerDone has been
\* received, the other is still inside a job
C25_Witness ==
    /\ size_compute.some
    /\ max_threads = 2
    /\ size_compute.remaining_workers = 1
    /\ WorkerDonesOf(size_compute.generation) = {}
    /\ \E w \in workers : w.pc = "enum"
    /\ Cardinality(workers) = 1

\* C26: in the current computation every directory of the list is in exactly
\* one place: still in the job queue (once), in the hands of one worker, in
\* one queued DirLocalDone, or applied (local_done or finished); so no job is
\* taken by two workers and no directory gets two DirLocalDone messages,
\* whatever the interleaving of the workers.
C26_JobPoppedOnce ==
    (/\ size_compute.some /\ ~panicked
     /\ size_compute.generation = size_compute_generation
     /\ size_compute.generation \in DOMAIN shared)
    => LET g == size_compute.generation
           q == shared[g].queue
           busy == { w \in workers : w.gen = g /\ w.dir # "none" }
           sent == { i \in 1..Len(channel) :
                       channel[i].gen = g /\ channel[i].type = "DirLocalDone" }
           applied == DOMAIN size_compute.local_done \cup size_compute.finished
           Queued == Range(q)
           Busy == { w.dir : w \in busy }
           Sent == { channel[i].dir : i \in sent }
       IN /\ Cardinality(Queued) = Len(q)
          /\ Cardinality(Busy) = Cardinality(busy)
          /\ Cardinality(Sent) = Cardinality(sent)
          /\ Queued \cap Busy = {} /\ Queued \cap Sent = {} /\ Queued \cap applied = {}
          /\ Busy \cap Sent = {} /\ Busy \cap applied = {} /\ Sent \cap applied = {}
          /\ Queued \cup Busy \cup Sent \cup applied = Range(size_compute.dirs)

\* two workers hold the jobs of /t and /t/a at the same time while the job of
\* /t/b waits in the queue
C26_Witness ==
    /\ size_compute.some
    /\ max_threads = 2
    /\ { w.dir : w \in workers } = {"/t", "/t/a"}
    /\ shared[size_compute.generation].queue = << "/t/b" >>

\* the position of x in the sequence seq
IndexIn(seq, x) == CHOOSE i \in 1..Len(seq) : seq[i] = x

\* C27: right after start_computation (before finalise and before any worker
\* has run) the keys of local_done and the jobs of the queue partition the tree
\* directories: a directory with an entry in dir_local_sums has that entry as
\* its local_done and no job, every other tree directory has one job and no
\* local_done, and the jobs are queued in tree-node order.
C27_StartPartition ==
    [][ (size_compute_generation' # size_compute_generation)
        => LET q == shared'[size_compute_generation'].queue
               ld == PreFinalize.local_done
           IN /\ DOMAIN ld \cup Range(q) = Range(tree)
              /\ DOMAIN ld \cap Range(q) = {}
              /\ Cardinality(Range(q)) = Len(q)
              /\ \A d \in Range(tree) :
                    IF d \in DOMAIN dir_local_sums
                    THEN d \in DOMAIN ld /\ ld[d] = dir_local_sums[d]
                    ELSE d \in Range(q)
              /\ \A i, j \in 1..Len(q) :
                    i < j => IndexIn(tree, q[i]) < IndexIn(tree, q[j]) ]_vars

\* the second computation has just started on { /t, /t/sub } with the local
\* result of /t cached and that of /t/sub not: /t is in local_done, the queue
\* holds the one job of /t/sub, and the worker has not run yet
C27_Witness ==
    /\ size_compute.some
    /\ size_compute.generation = 2
    /\ tree = << "/t", "/t/sub" >>
    /\ 2 \in DOMAIN shared
    /\ shared[2].queue = << "/t/sub" >>
    /\ "/t" \in DOMAIN size_compute.local_done
    /\ size_compute.finished = {}
    /\ \E w \in workers : w.gen = 2 /\ w.pc = "check"
    /\ \A i \in 1..Len(channel) : channel[i].gen # 2

\* updates of generation g the event loop may be handed: one of each kind
\* with the smallest and the largest payload, and those queued
UpdatesOf(g) ==
    { FileMsg(g, "/t/f", sz) : sz \in {0, U64Max} }
    \cup { DirLocalDoneMsg(g, d, u, hl) :
             d \in Range(tree), u \in {0, U64Max},
             hl \in { EmptyMap, MapInsert(EmptyMap, << RootDev, 1 >>, U64Max) } }
    \cup { WorkerDoneMsg(g) }
    \cup { channel[i] : i \in { j \in 1..Len(channel) : channel[j].gen = g } }

\* the engine state apply_size_update works on, with its return value unset
EngineState ==
    [fs |-> file_sizes, dls |-> dir_local_sums, c |-> size_compute, need |-> FALSE]

\* C28: an update whose generation is not the engine's current generation, or
\* that arrives while there is no computation or one of another generation,
\* changes nothing - file_sizes, dir_local_sums, local_done and
\* remaining_workers stay as they are - and apply_size_update returns false,
\* for File, DirLocalDone and WorkerDone alike; a batch made of such updates
\* only leaves dir_sizes and the rest of the engine untouched.
C28_StaleUpdateNoEffect ==
    /\ [](\A g \in 0..(MaxGen + 1) :
            (g # size_compute_generation \/ ~size_compute.some
               \/ size_compute.generation # g)
            => \A m \in UpdatesOf(g) :
                  apply_size_update(EngineState, size_compute_generation, m) = EngineState)
    /\ [][ (channel # << >> /\ channel' = << >>
            /\ \A i \in 1..Len(channel) : channel[i].gen # size_compute_generation)
           => UNCHANGED << dir_sizes, file_sizes, dir_local_sums, size_compute >> ]_vars

\* the second computation runs after a tree rebuild that emptied file_sizes,
\* and a File, the DirLocalDone and the WorkerDone of the first computation are
\* queued
C28_Witness ==
    /\ size_compute.some
    /\ size_compute_generation = 2
    /\ size_compute.remaining_workers = 1
    /\ "/t/f" \notin DOMAIN file_sizes
    /\ "/t" \notin DOMAIN dir_local_sums
    /\ \E i, j, k \in 1..Len(channel) :
          /\ channel[i] = FileMsg(1, "/t/f", 1)
          /\ channel[j].type = "DirLocalDone" /\ channel[j].gen = 1
          /\ channel[k] = WorkerDoneMsg(1)

\* m maps as n does except possibly at k
SameExceptAt(m, n, k) ==
    /\ DOMAIN m \ {k} = DOMAIN n \ {k}
    /\ \A x \in DOMAIN n \ {k} : m[x] = n[x]

\* C29: applied to a current-generation update, apply_size_update stores a
\* DirLocalDone{dir, result} in local_done[dir] and in dir_local_sums[dir] and
\* returns true; sets file_sizes[path] for a File and returns false;
\* decrements remaining_workers (not below 0) for a WorkerDone and returns
\* false; and changes nothing else. An entry of dir_local_sums then keeps its
\* value through finalisation and through later starts: it changes only when
\* a DirLocalDone of the current generation for that directory is received,
\* and disappears only in a handler step that requests a recompute.
C29_UpdateEffects ==
    /\ [](GenerationMatches(size_compute, size_compute_generation, size_compute_generation)
          => \A m \in UpdatesOf(size_compute_generation) :
                LET r == apply_size_update(EngineState, size_compute_generation, m) IN
                CASE m.type = "File" ->
                       /\ m.path \in DOMAIN r.fs /\ r.fs[m.path] = m.size
                       /\ SameExceptAt(r.fs, file_sizes, m.path)
                       /\ r.dls = dir_local_sums /\ r.c = size_compute /\ ~r.need
                  [] m.type = "DirLocalDone" ->
                       /\ m.dir \in DOMAIN r.dls /\ m.dir \in DOMAIN r.c.local_done
                       /\ r.dls[m.dir] = DirLocalResult(m.unique_sum, m.hardlinks)
                       /\ r.c.local_done[m.dir] = DirLocalResult(m.unique_sum, m.hardlinks)
                       /\ SameExceptAt(r.dls, dir_local_sums, m.dir)
                       /\ SameExceptAt(r.c.local_done, size_compute.local_done, m.dir)
                       /\ r.c = [size_compute EXCEPT !.local_done = r.c.local_done]
                       /\ r.fs = file_sizes /\ r.need
                  [] OTHER ->
                       /\ r.c.remaining_workers
                            = (IF size_compute.remaining_workers = 0 THEN 0
                               ELSE size_compute.remaining_workers - 1)
                       /\ r.c = [size_compute EXCEPT !.remaining_workers = r.c.remaining_workers]
                       /\ r.fs = file_sizes /\ r.dls = dir_local_sums /\ ~r.need)
    /\ [][ /\ \A d \in DOMAIN dir_local_sums :
                 \/ /\ d \in DOMAIN dir_local_sums'
                    /\ \/ dir_local_sums'[d] = dir_local_sums[d]
                       \/ \E i \in 1..Len(channel) :
                             /\ channel[i].type = "DirLocalDone"
                             /\ channel[i].gen = size_compute_generation
                             /\ channel[i].dir = d
                             /\ channel' = << >>
                 \/ (needs_size_recompute' /\ ~needs_size_recompute)
           /\ \A i \in 1..Len(channel) :
                 (/\ channel' = << >> /\ ~panicked'
                  /\ channel[i].type = "DirLocalDone"
                  /\ GenerationMatches(size_compute, size_compute_generation, channel[i].gen))
                 => channel[i].dir \in DOMAIN dir_local_sums' ]_vars

\* the second computation was started by a plain recompute request and has
\* converged without a worker: the local result of /t cached by the first
\* computation went through a finalisation and a start and is still there
C29_Witness ==
    /\ Converged
    /\ size_compute_generation = 2
    /\ size_compute.remaining_workers = 0
    /\ "/t" \in DOMAIN dir_local_sums
    /\ dir_local_sums["/t"]
         = FullLocal("/t", {"/t"}, dedup_hard_links, one_file_system)
    /\ \A w \in workers : w.gen = 1
    /\ \A i \in 1..Len(channel) : channel[i].gen = 1
    /\ 2 \in DOMAIN shared /\ shared[2].queue = << >>

\* the directories of the computation that are ready (local result present,
\* no tree child pending) but not finalised
ReadyUnfinished ==
    { d \in Range(size_compute.dirs) :
        /\ d \in DOMAIN size_compute.local_done
        /\ d \in DOMAIN size_compute.pending_children
        /\ size_compute.pending_children[d] = 0
        /\ d \notin size_compute.finished }

\* C30: the event loop leaves no directory ready but unfinished: after a start
\* followed by finalise, and after a received batch followed by finalise, in
\* every state in between, there is no directory of the computation with a
\* local result, no pending tree child, and no total.
C30_NothingReadyLeft ==
    (size_compute.some /\ ~panicked) => ReadyUnfinished = {}

\* the local result of the root has arrived and waits: /t/a is finalised and
\* folded, /t/b is still pending
C30_Witness ==
    /\ size_compute.some
    /\ max_threads = 2
    /\ DOMAIN size_compute.local_done = { Root }
    /\ size_compute.pending_children[Root] = 1
    /\ size_compute.finished = {"/t/a"}
    /\ ReadyUnfinished = {}

\* the tree directories of the computation that are d or lie below d
SubtreeOf(d) == { c \in Range(size_compute.dirs) : IsUnder(c, d) }

\* the hard-link maps of the cached local results of the directories S, merged
CachedLinks(S) ==
    [k \in UNION { DOMAIN dir_local_sums[c].hardlinks : c \in S } |->
        dir_local_sums[CHOOSE c \in S : k \in DOMAIN dir_local_sums[c].hardlinks].hardlinks[k]]

\* the total the cascade of the computation yields for d from the local
\* results the computation was given (all of them held in dir_local_sums)
CachedTotal(d) ==
    LET S == SubtreeOf(d) IN
    SaturatingAdd(Saturate(SumOver([c \in S |-> dir_local_sums[c].unique_sum], S)),
                  WrappingSum(CachedLinks(S)))

\* C31: for the computation the event loop holds (its cancel flag clear),
\* whenever remaining_workers = 0 with no restart requested, every tree
\* directory is in finished and has a dir_sizes entry, which is the total this
\* computation's cascade makes of its own local results - not a value left by
\* an earlier generation; no worker of the generation runs and none of its
\* messages is queued, so nothing is still to come.
C31_DoneMeansAllFinished ==
    (/\ size_compute.some /\ ~panicked /\ ~needs_size_recompute
     /\ size_compute.generation \in DOMAIN shared
     /\ ~shared[size_compute.generation].cancel
     /\ size_compute.remaining_workers = 0)
    => /\ size_compute.generation = size_compute_generation
       /\ Range(size_compute.dirs) = Range(tree)
       /\ size_compute.finished = Range(tree)
       /\ \A w \in workers : w.gen # size_compute.generation
       /\ \A i \in 1..Len(channel) : channel[i].gen # size_compute.generation
       /\ \A d \in Range(tree) :
             /\ d \in DOMAIN dir_sizes
             /\ SubtreeOf(d) \subseteq DOMAIN dir_local_sums
             /\ dir_sizes[d] = CachedTotal(d)

\* the second computation, started after hard-link deduplication was switched
\* off, has ended (remaining_workers = 0) while the worker of the first is
\* still alive: the total of /t is the one of the second computation, which
\* counts both links, not the one the first computation had written
C31_Witness ==
    /\ size_compute.some /\ ~needs_size_recompute
    /\ size_compute.generation = 2
    /\ ~dedup_hard_links
    /\ size_compute.remaining_workers = 0
    /\ size_compute.finished = {"/t"}
    /\ dir_sizes["/t"] = 3
    /\ \E w \in workers : w.gen = 1
    /\ ~shared[2].cancel

\* the directories with parent p that are in the finished set after and not before
NewlyFinished(p, before, after) ==
    { c \in after.finished \ before.finished :
        c \in DOMAIN before.parent_dir /\ before.parent_dir[c] = p }

\* the unique bytes directory d hands to its parent, from the local results
\* in cache of d and of the tree directories below d
UniqueOf(d, cache) ==
    LET S == SubtreeOf(d) IN Saturate(SumOver([c \in S |-> cache[c].unique_sum], S))

\* what one finalisation may change from the compute state before (with
\* dir_sizes ds0) to the one after (with ds1): finished grows; the total of a
\* directory already finished is not rewritten; pending_children of p drops by
\* the number of p's children finalised now; the accumulators of p are left
\* alone unless a child of p is finalised now
FinalisedOnceBetween(before, ds0, after, ds1) ==
    /\ before.finished \subseteq after.finished
    /\ \A d \in before.finished : d \in DOMAIN ds1 /\ ds1[d] = ds0[d]
    /\ \A p \in Range(before.dirs) :
          /\ after.pending_children[p]
               = before.pending_children[p]
                   - Cardinality(NewlyFinished(p, before, after))
          /\ (p \notin after.finished /\ NewlyFinished(p, before, after) = {})
               => /\ after.children_unique[p] = before.children_unique[p]
                  /\ after.children_hardlinks[p] = before.children_hardlinks[p]

\* C32: within one computation finished only grows and a directory is
\* finalised once. Whatever update of the current generation is applied next
\* and finalise run (a second DirLocalDone for a finished directory included),
\* and in every step the program takes, the total of a directory already in
\* finished is not rewritten, pending_children of its parent is not
\* decremented for it again, and its bytes are not added to the parent's
\* accumulators again: children_unique of p grows by exactly the unique bytes
\* of the children finalised in that step. Running finalise again changes nothing.
\* The updates not queued are tried in the states where the workers have
\* ended: a worker never reads the engine, so every engine state is met there.
C32_FinalisedOnce ==
    /\ []((GenerationMatches(size_compute, size_compute_generation, size_compute_generation)
           /\ ~panicked)
          => /\ workers = {}
                  => \A m \in UpdatesOf(size_compute_generation) :
                        \A r \in {apply_size_update(EngineState, size_compute_generation, m)} :
                           \A fin \in {finalize_ready_dirs(dir_sizes, r.c)} :
                              FinalisedOnceBetween(size_compute, dir_sizes, fin.c, fin.ds)
             /\ finalize_ready_dirs(dir_sizes, size_compute)
                  = [c |-> size_compute, ds |-> dir_sizes, overflow |-> FALSE])
    /\ [][ (size_compute.some /\ size_compute_generation' = size_compute_generation
            /\ ~panicked')
           => /\ FinalisedOnceBetween(size_compute, dir_sizes, size_compute', dir_sizes')
              /\ \A p \in Range(size_compute.dirs) \ size_compute'.finished :
                    size_compute'.children_unique[p]
                      = Saturate(size_compute.children_unique[p]
                                 + SumOver([c \in NewlyFinished(p, size_compute, size_compute')
                                              |-> UniqueOf(c, dir_local_sums')],
                                           NewlyFinished(p, size_compute, size_compute'))) ]_vars

\* /t/b was finalised by an earlier call of finalise and folded into the
\* root, whose own result is held; the DirLocalDone of /t/a is queued, so the
\* next call runs with /t/b already in finished
C32_Witness ==
    /\ size_compute.some
    /\ size_compute.finished = {"/t/b"}
    /\ Root \in DOMAIN size_compute.local_done
    /\ size_compute.pending_children[Root] = 1
    /\ size_compute.children_unique[Root] > 0
    /\ \E i \in 1..Len(channel) :
          /\ channel[i].type = "DirLocalDone"
          /\ channel[i].gen = size_compute.generation
          /\ channel[i].dir = "/t/a"

\* the positions in the channel of the messages that pass the generation
\* filter of the engine as it is now
CurrentOnes ==
    { i \in 1..Len(channel) :
        GenerationMatches(size_compute, size_compute_generation, channel[i].gen) }

\* those of them that are DirLocalDone messages
CurrentDirLocalDones == { i \in CurrentOnes : channel[i].type = "DirLocalDone" }

\* the last position in I of a File message for the path of the one at i
LastFileLike(I, i) ==
    CHOOSE j \in I : /\ channel[j].type = "File" /\ channel[j].path = channel[i].path
                     /\ \A k \in I : (channel[k].type = "File"
                                      /\ channel[k].path = channel[i].path) => k <= j

\* the last position in I of a DirLocalDone message for directory d
LastDirLocalDone(I, d) ==
    CHOOSE j \in I : /\ channel[j].type = "DirLocalDone" /\ channel[j].dir = d
                     /\ \A k \in I : (channel[k].type = "DirLocalDone"
                                      /\ channel[k].dir = d) => k <= j

\* the compute state once every message of the channel has been applied and
\* before finalise: the DirLocalDone results in local_done, remaining_workers
\* lowered once per WorkerDone
BatchApplied ==
    LET I == CurrentDirLocalDones
        n == Cardinality({ i \in CurrentOnes : channel[i].type = "WorkerDone" })
        ld == [d \in DOMAIN size_compute.local_done \cup { channel[i].dir : i \in I } |->
                 IF \E i \in I : channel[i].dir = d
                 THEN LET m == channel[LastDirLocalDone(I, d)]
                      IN DirLocalResult(m.unique_sum, m.hardlinks)
                 ELSE size_compute.local_done[d]]
    IN [size_compute EXCEPT !.local_done = ld,
                            !.remaining_workers =
                                IF size_compute.remaining_workers > n
                                THEN size_compute.remaining_workers - n ELSE 0]

\* C33: the value the consumer accumulates from apply_size_update over the
\* queued messages is true exactly when one of them is a DirLocalDone of the
\* current generation; and a step in which the consumer receives takes the
\* whole channel, first message first: every File and DirLocalDone of the
\* current generation is applied (the later of two for the same key last),
\* remaining_workers drops once per current WorkerDone, and only then finalise
\* runs - as one call on the state with every message applied when the batch
\* held a current DirLocalDone, and not at all otherwise (nothing is
\* finalised, dir_sizes and the accumulators stay), stale messages or not.
C33_BatchThenFinalise ==
    /\ [](ApplyAll(channel, EngineState, size_compute_generation).need
            <=> CurrentDirLocalDones # {})
    /\ [][ (Len(channel') < Len(channel) /\ ~panicked')
           => /\ channel' = << >>
              /\ \A current \in {CurrentOnes}, applied \in {BatchApplied} :
                    /\ \A i \in current :
                          /\ channel[i].type = "File"
                               => /\ channel[i].path \in DOMAIN file_sizes'
                                  /\ file_sizes'[channel[i].path]
                                       = channel[LastFileLike(current, i)].size
                          /\ channel[i].type = "DirLocalDone"
                               => /\ channel[i].dir \in DOMAIN dir_local_sums'
                                  /\ dir_local_sums'[channel[i].dir]
                                       = applied.local_done[channel[i].dir]
                    /\ IF CurrentDirLocalDones = {}
                       THEN /\ size_compute' = applied
                            /\ dir_sizes' = dir_sizes
                            /\ dir_local_sums' = dir_local_sums
                       ELSE \A fin \in {finalize_ready_dirs(dir_sizes, applied)} :
                               /\ size_compute' = fin.c
                               /\ dir_sizes' = fin.ds
                               /\ ReadyUnfinished' = {} ]_vars

\* the second computation on { /t } runs and nothing of it has been sent yet;
\* the worker of the first computation, superseded in the middle of its job,
\* has ended, and its DirLocalDone and WorkerDone have been received in
\* batches of stale messages: nothing was cached, nothing finalised
C33_Witness ==
    /\ size_compute.some
    /\ size_compute_generation = 2
    /\ tree = << "/t" >>
    /\ "/t/f" \in DOMAIN file_sizes
    /\ "/t" \notin DOMAIN dir_local_sums
    /\ dir_sizes = EmptyMap
    /\ size_compute.finished = {}
    /\ size_compute.remaining_workers = 1
    /\ channel = << >>
    /\ \A w \in workers : w.gen = 2 /\ w.pc = "check"
    /\ shared[2].queue = << "/t" >>

\* C34: a start spawns min(available_parallelism, number of uncached jobs)
\* worker threads when there is at least one job - at least one, never more
\* than there are jobs - and none when every tree directory has a cached local
\* result; remaining_workers is the number of threads spawned; the threads of
\* earlier computations are left as they are.
C34_WorkerCount ==
    [][ (size_compute_generation' # size_compute_generation)
        => LET jobs == Cardinality(Range(tree) \ DOMAIN dir_local_sums)
               n == IF jobs > 0 THEN Min(max_threads, jobs) ELSE 0
               spawned == workers' \ workers
           IN /\ Cardinality(spawned) = n
              /\ \A w \in spawned : w.gen = size_compute_generation' /\ w.pc = "check"
              /\ \A w \in workers' : w.gen = size_compute_generation' => w \in spawned
              /\ workers \subseteq workers'
              /\ size_compute'.remaining_workers = n
              /\ Len(shared'[size_compute_generation'].queue) = jobs
              /\ jobs > 0 => (n >= 1 /\ n <= jobs)
              /\ Range(tree) \subseteq DOMAIN dir_local_sums => n = 0 ]_vars

\* two threads are available and the second computation on { /t, /t/sub }
\* has just started with the local result of /t cached and that of /t/sub
\* not: one job, one worker
C34_Witness ==
    /\ size_compute.some
    /\ size_compute_generation = 2
    /\ max_threads = 2
    /\ tree = << "/t", "/t/sub" >>
    /\ DOMAIN dir_local_sums = {"/t"}
    /\ shared[2].queue = << "/t/sub" >>
    /\ Cardinality(workers) = 1
    /\ \A w \in workers : w.gen = 2 /\ w.pc = "check"
    /\ size_compute.remaining_workers = 1

\* the regular files and symlinks directly in d and everything under the
\* child directories of d that are not tree directories
Covered(d, tree_dirs) ==
    { p \in AllEntries :
        \/ p[1] = d
        \/ \E c \in Dirs : ParentOf(c) = d /\ c \notin tree_dirs /\ IsUnder(p[1], c) }

\* the walk of job d does not get to directory e: d cannot be read, or a
\* directory on the way from d down to e cannot be read or, under
\* one_file_system, lies on another device than the root
NotWalked(d, e, ofs) ==
    \/ d \in fsys.unreadable
    \/ \E c \in PathBelow(d, e) : c \in fsys.unreadable \/ (ofs /\ DevOf(c) # DevOf(Root))

\* the LocalResult made of the entries S
ResultOver(S, dedup) ==
    DirLocalResult(Saturate(SumSizes({ p \in S : ~IsLinked(p, dedup) })), LinkMap(S, dedup))

\* C35: the LocalResult a worker emits for tree directory d is made of the
\* regular files and symlinks directly in d and of everything under d's
\* non-tree child directories as far as the walk gets (unreadable directories
\* and, with one_file_system, directories on another device are passed over),
\* all of it when nothing is passed over; a worker that saw its cancel flag
\* emits a part of that. Nothing under a tree child of d is among these
\* entries, and over the tree directories they partition the regular files
\* and symlinks under the root: each is in the coverage of exactly one tree
\* directory.
C35_LocalCoverage ==
    /\ \A i \in 1..Len(channel) :
          (channel[i].type = "DirLocalDone" /\ channel[i].gen \in DOMAIN shared)
          => LET ctx == shared[channel[i].gen]
                 d == channel[i].dir
                 cov == Covered(d, ctx.tree_dirs)
                 got == { p \in cov : ~NotWalked(d, p[1], ctx.one_file_system) }
                 full == ResultOver(got, ctx.dedup_hard_links)
             IN /\ d \in ctx.tree_dirs
                /\ IF ctx.cancel
                   THEN /\ channel[i].unique_sum <= full.unique_sum
                        /\ DOMAIN channel[i].hardlinks \subseteq DOMAIN full.hardlinks
                   ELSE DirLocalResult(channel[i].unique_sum, channel[i].hardlinks) = full
                /\ got = cov
                     => (~ctx.cancel
                         => DirLocalResult(channel[i].unique_sum, channel[i].hardlinks)
                              = ResultOver(cov, ctx.dedup_hard_links))
    /\ \A g \in DOMAIN shared :
          LET td == shared[g].tree_dirs IN
          /\ \A d \in td :
                \A p \in Covered(d, td) :
                   ~\E c \in td : ParentOf(c) = d /\ IsUnder(p[1], c)
          /\ \A p \in AllEntries :
                Cardinality({ d \in td : p \in Covered(d, td) }) = 1

\* on the tree { /t, /t/a, /t/b } with nothing passed over, the worker has
\* emitted the result of /t, made of /t/f alone, and then that of /t/a, which
\* holds /t/a/f and the file of the non-tree directory /t/a/x
C35_Witness ==
    /\ tree = << "/t", "/t/a", "/t/b" >>
    /\ fsys.unreadable = {} /\ fsys.mount = {}
    /\ size_compute_generation \in DOMAIN shared
    /\ \E i, j \in 1..Len(channel) :
          /\ i < j
          /\ channel[i].type = "DirLocalDone" /\ channel[i].dir = "/t"
          /\ DirLocalResult(channel[i].unique_sum, channel[i].hardlinks)
               = ResultOver({ << "/t", 1 >> }, dedup_hard_links)
          /\ channel[j].type = "DirLocalDone" /\ channel[j].dir = "/t/a"
          /\ DirLocalResult(channel[j].unique_sum, channel[j].hardlinks)
               = ResultOver({ << "/t/a", 1 >>, << "/t/a/x", 1 >> }, dedup_hard_links)
          /\ Covered("/t/a", Range(tree)) = { << "/t/a", 1 >>, << "/t/a/x", 1 >> }

\* hard-link maps over two inode keys with the sizes 1 and BigSize: every
\* combination of absent, agreeing and disagreeing entries
SomeLinkMaps ==
    UNION { [K -> {1, BigSize}] : K \in SUBSET { << RootDev, 1 >>, << RootDev, 2 >> } }

\* the hard-link maps the computation holds, and the maps above
MapsAtHand ==
    SomeLinkMaps
    \cup { size_compute.local_done[d].hardlinks : d \in DOMAIN size_compute.local_done }
    \cup { size_compute.children_hardlinks[d] : d \in DOMAIN size_compute.children_hardlinks }

\* a and b record the same size for every key they share
Agree(a, b) == \A k \in DOMAIN a \cap DOMAIN b : a[k] = b[k]

\* children_hardlinks[p] after the finalised child c has handed map m to p
FoldedInto(compute, c, m) ==
    PropagateToParent(compute, c, 0, m).children_hardlinks[compute.parent_dir[c]]

\* C36: the merge of finalise (the local map with the children's map, either
\* one the base, and a child's map into its parent's accumulator) returns a
\* map over the union of the two key sets in which every key of the base
\* keeps the base's value and every other key has the value of the other map;
\* when the maps agree on the keys they share, the merged map and its byte sum
\* are the same whichever map is the base, and the accumulator of a parent is
\* the same whichever of two sibling directories is folded in first. (Stated
\* of the engine whenever the event loop has drained the channel.)
C36_MergeFirstSeenWins ==
    (size_compute.some /\ channel = << >>) =>
      /\ \A a, b \in MapsAtHand :
            LET m == MergeLargerBase(a, b)
                base == IF Cardinality(DOMAIN a) >= Cardinality(DOMAIN b) THEN a ELSE b
                other == IF Cardinality(DOMAIN a) >= Cardinality(DOMAIN b) THEN b ELSE a
            IN /\ DOMAIN m = DOMAIN a \cup DOMAIN b
               /\ \A k \in DOMAIN base : m[k] = base[k]
               /\ \A k \in DOMAIN other \ DOMAIN base : m[k] = other[k]
               /\ DOMAIN OrInsertAll(a, b) = DOMAIN a \cup DOMAIN b
               /\ \A k \in DOMAIN a : OrInsertAll(a, b)[k] = a[k]
               /\ Agree(a, b)
                    => /\ m = MergeLargerBase(b, a)
                       /\ m = OrInsertAll(a, b) /\ m = OrInsertAll(b, a)
                       /\ HardlinkBytes(m) = HardlinkBytes(OrInsertAll(b, a))
      /\ \A c1, c2 \in Range(size_compute.dirs) \ size_compute.finished :
            (/\ IndexIn(size_compute.dirs, c1) < IndexIn(size_compute.dirs, c2)
             /\ size_compute.parent_dir[c1] # "none"
             /\ size_compute.parent_dir[c1] = size_compute.parent_dir[c2]
             /\ size_compute.parent_dir[c1] \notin size_compute.finished)
            => LET p == size_compute.parent_dir[c1]
                   acc == size_compute.children_hardlinks[p]
               IN \A a, b \in SomeLinkMaps :
                     LET ab == FoldedInto(PropagateToParent(size_compute, c1, 0, a), c2, b)
                         ba == FoldedInto(PropagateToParent(size_compute, c2, 0, b), c1, a)
                     IN /\ DOMAIN ab = DOMAIN acc \cup DOMAIN a \cup DOMAIN b
                        /\ \A k \in DOMAIN acc : ab[k] = acc[k] /\ ba[k] = acc[k]
                        /\ \A k \in DOMAIN a \ DOMAIN acc : ab[k] = a[k]
                        /\ (Agree(a, b) /\ Agree(acc, a) /\ Agree(acc, b))
                             => (ab = ba /\ HardlinkBytes(ab) = HardlinkBytes(ba))

\* /t/a and /t/b each hold a link to the same inode; both are finalised and
\* folded into the accumulator of the root, which holds the inode once, while
\* the root's own result is still to come
C36_Witness ==
    /\ size_compute.some /\ dedup_hard_links
    /\ size_compute.finished = {"/t/a", "/t/b"}
    /\ Root \notin DOMAIN size_compute.local_done
    /\ DOMAIN size_compute.children_hardlinks[Root] = { << RootDev, 1 >> }
    /\ size_compute.children_hardlinks[Root][<< RootDev, 1 >>] = BigSize
    /\ dir_sizes["/t/a"] > BigSize /\ dir_sizes["/t/b"] > BigSize
    /\ channel = << >>

\* the worker w is no longer in the pool after the step
Gone(w) == ~\E v \in workers' : v.gen = w.gen /\ v.id = w.id

\* C37: every computation has its own cancel flag and its own job queue. The
\* flag of the current computation is clear and the flags of all the others
\* still alive are set. A step that sets the flag of one generation leaves
\* the flags and the queues of every other generation as they are and takes
\* no worker out of the pool; the computation it starts gets a clear flag and
\* a queue of its own jobs. The queue of a generation loses a job only to a
\* worker of that generation; a worker ends only on its own generation's flag
\* or on its own generation's queue being empty, and leaves a job before the
\* last entry only on its own generation's flag - also while workers of two
\* generations are running.
C37_OwnCancelAndQueue ==
    /\ [](\A g \in DOMAIN shared :
            shared[g].cancel <=> g # size_compute.generation)
    /\ [][ /\ \A g \in DOMAIN shared \cap DOMAIN shared' :
                 /\ shared'[g].cancel # shared[g].cancel
                      => /\ g = size_compute.generation /\ shared'[g].cancel
                         /\ shared'[g].queue = shared[g].queue
                         /\ \A h \in (DOMAIN shared \cap DOMAIN shared') \ {g} :
                               shared'[h] = shared[h]
                         /\ workers \subseteq workers'
                         /\ ~shared'[size_compute_generation'].cancel
                         /\ shared'[size_compute_generation'].queue
                              = JobsOf(tree, dir_local_sums)
                 /\ shared'[g].queue # shared[g].queue
                      => /\ shared'[g].queue = Tail(shared[g].queue)
                         /\ \E w \in workers : w.gen = g /\ w.pc = "pop" /\ w \notin workers'
                         /\ \A h \in (DOMAIN shared \cap DOMAIN shared') \ {g} :
                               shared'[h] = shared[h]
           /\ \A w \in workers :
                 Gone(w) => \/ shared[w.gen].cancel /\ w.pc = "check"
                            \/ shared[w.gen].queue = << >> /\ w.pc = "pop"
           /\ \A w \in workers :
                 (/\ w.pc = "enum" /\ w.idx <= Len(EntriesOf(w.dir))
                  /\ \E v \in workers' : v.gen = w.gen /\ v.id = w.id /\ v.pc = "check")
                 => shared[w.gen].cancel ]_vars

\* the first computation has been cancelled with its worker inside the job of
\* /t and a job left in its queue; the worker of the second computation is
\* inside its own job of /t, with the second queue holding its own job
C37_Witness ==
    /\ size_compute_generation = 2
    /\ {1, 2} \subseteq DOMAIN shared
    /\ shared[1].cancel /\ ~shared[2].cancel
    /\ shared[1].queue = << "/t/sub" >>
    /\ shared[2].queue = << "/t/sub" >>
    /\ \E w \in workers : w.gen = 1 /\ w.pc = "enum" /\ w.dir = "/t"
    /\ \E w \in workers : w.gen = 2 /\ w.pc = "enum" /\ w.dir = "/t"

\* the entries in the coverage of job d that lie in or below a directory
\* under d on another device than root_dev
Foreign(d, tree_dirs, root_dev) ==
    { p \in Covered(d, tree_dirs) : \E c \in PathBelow(d, p[1]) : DevOf(c) # root_dev }

\* the entries in the coverage of job d not cut off by an unreadable directory
Readable(d, tree_dirs) ==
    { p \in Covered(d, tree_dirs) :
        d \notin fsys.unreadable /\ \A c \in PathBelow(d, p[1]) : c \notin fsys.unreadable }

\* the directories among the entries of directory x
SubDirsOf(x) == { EntriesOf(x)[i].path : i \in { j \in 1..Len(EntriesOf(x)) : EntriesOf(x)[j].kind = "dir" } }

\* C38: with one_file_system a non-tree subdirectory on another device than
\* the root contributes nothing to any LocalResult: the worker does not walk
\* such a child of its tree directory and the walker never has such a
\* directory on its stack, at any depth, so the LocalResult emitted is made of
\* the readable coverage minus everything in or below such directories.
\* Without one_file_system every non-tree subdirectory is descended whatever
\* its device: the worker walks each non-tree child, the walker pushes every
\* subdirectory it finds, and the LocalResult is made of the whole readable
\* coverage.
C38_OneFileSystem ==
    /\ [](/\ \A w \in workers :
                shared[w.gen].one_file_system
                => \A x \in Range(w.stack) : DevOf(x) = shared[w.gen].root_dev
          /\ \A i \in 1..Len(channel) :
                (/\ channel[i].type = "DirLocalDone"
                 /\ channel[i].gen \in DOMAIN shared
                 /\ ~shared[channel[i].gen].cancel)
                => LET ctx == shared[channel[i].gen]
                       d == channel[i].dir
                       r == DirLocalResult(channel[i].unique_sum, channel[i].hardlinks)
                   IN IF ctx.one_file_system
                      THEN r = ResultOver(Readable(d, ctx.tree_dirs)
                                            \ Foreign(d, ctx.tree_dirs, ctx.root_dev),
                                          ctx.dedup_hard_links)
                      ELSE r = ResultOver(Readable(d, ctx.tree_dirs), ctx.dedup_hard_links))
    /\ [][ \A w \in workers : \A v \in workers' :
             (v.gen = w.gen /\ v.id = w.id /\ v # w /\ ~shared[w.gen].cancel)
             => LET ctx == shared[w.gen] IN
                /\ (w.pc = "enum" /\ w.idx <= Len(EntriesOf(w.dir))
                    /\ EntriesOf(w.dir)[w.idx].kind = "dir"
                    /\ EntriesOf(w.dir)[w.idx].path \notin ctx.tree_dirs)
                     => IF ctx.one_file_system
                           /\ DevOf(EntriesOf(w.dir)[w.idx].path) # ctx.root_dev
                        THEN v = [w EXCEPT !.idx = w.idx + 1]
                        ELSE v.pc = "walk" /\ v.stack = << EntriesOf(w.dir)[w.idx].path >>
                /\ (w.pc = "walk" /\ w.stack[Len(w.stack)] \notin fsys.unreadable)
                     => LET found == SubDirsOf(w.stack[Len(w.stack)])
                            taken == IF ctx.one_file_system
                                     THEN { x \in found : DevOf(x) = ctx.root_dev }
                                     ELSE found
                        IN IF taken = {} /\ Len(w.stack) = 1
                           THEN v.pc = "enum" /\ v.stack = << >>
                           ELSE /\ v.pc = "walk"
                                /\ Range(v.stack)
                                     = Range(SubSeq(w.stack, 1, Len(w.stack) - 1)) \cup taken ]_vars

\* with one_file_system on the tree { /t } where /t/a/x is on another device:
\* the worker walked /t/a and /t/b, the walker passed /t/a/x over, and the
\* LocalResult of /t is emitted without the file of /t/a/x, which the same
\* walk would have counted without the flag
C38_Witness ==
    /\ one_file_system
    /\ tree = << "/t" >>
    /\ fsys.mount = {"/t/a/x"} /\ fsys.unreadable = {}
    /\ size_compute_generation \in DOMAIN shared
    /\ \E i \in 1..Len(channel) :
          /\ channel[i].type = "DirLocalDone" /\ channel[i].dir = "/t"
          /\ DirLocalResult(channel[i].unique_sum, channel[i].hardlinks)
               = ResultOver(Covered("/t", {"/t"}) \ { << "/t/a/x", 1 >> }, dedup_hard_links)
          /\ DirLocalResult(channel[i].unique_sum, channel[i].hardlinks)
               # ResultOver(Covered("/t", {"/t"}), dedup_hard_links)
    /\ Foreign("/t", {"/t"}, RootDev) = { << "/t/a/x", 1 >> }
====
